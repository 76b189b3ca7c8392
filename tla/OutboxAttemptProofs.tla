------------------------- MODULE OutboxAttemptProofs -------------------------
(***************************************************************************)
(* AttemptsPaidByFaults for any number of actions, handlers and faults.    *)
(* The attempts counter is written from a number read before the claim, so *)
(* the bound needs to know that no stale number is larger than what the    *)
(* row, the batch and the other runners allow.                             *)
(***************************************************************************)
EXTENDS ActionOutboxProofs

\* The drain is about to put the row of a back after an exception.
Cleaning(a) == run[Drainer].pc = "infra" /\ run[Drainer].act = a

\* The attempts an action may have been given so far.
Lim(a) == MaxAttempts + faults - (IF Cleaning(a) THEN 1 ELSE 0)

Holds(r, a) == run[r].act = a /\ run[r].pc \in InFlightPcs

(* The drain works through its snapshot one row at a time.                 *)
DrainInv ==
    /\ run[Drainer].pc # "idle" \/ batch # {} => tick = "draining"
    /\ run[Drainer].pc = "infra" => faults > 0
    /\ \A b, c \in batch : b.act = c.act => b = c
    /\ \A b \in batch : b.act = run[Drainer].act => run[Drainer].pc = "idle"
    /\ \A s \in Slots : run[s].pc # "infra"

\* A handler past its approval, and one that has not claimed yet.
Approver(s) == run[s].pc \in {"approved", "mirrored"} \cup AttemptPcs
Awaiting(s) == run[s].pc \in {"approved", "mirrored", "ready"}

(* One handler at most has approved an action.                             *)
Once == \A s, t \in Slots : Approver(s) /\ Approver(t) /\ run[s].act = run[t].act => s = t

(* While a handler awaits its claim, the row's attempts only rise.         *)
Rises(s) ==
    LET a == run[s].act IN
    Awaiting(s) =>
      /\ run[s].pc = "ready" => run[s].no <= row[a].attempts + 1
      /\ Holds(Drainer, a) => run[Drainer].no = row[a].attempts
      /\ run[Drainer].act = a /\ run[Drainer].pc = "ready" => run[Drainer].no >= row[a].attempts
      /\ \A b \in batch : b.act = a => b.no >= row[a].attempts

Rising == \A s \in Slots : Rises(s)

(* Attempts are paid for: a row that may be tried again has one left.      *)
RowPaid(a) ==
    /\ row[a].attempts <= Lim(a)
    /\ row[a].status = "QUEUED" => row[a].attempts < Lim(a)
    /\ /\ row[a].status = "IN_PROGRESS"
       /\ row[a].ripe \/ (\A r \in Runners : ~Holds(r, a))
       /\ ~Cleaning(a)
       => row[a].attempts < Lim(a)

RunPaid(r) ==
    run[r].pc \in InFlightPcs \/ (r = Drainer /\ run[r].pc = "ready")
      => run[r].no <= Lim(run[r].act)

Paid ==
    /\ \A a \in Actions : RowPaid(a)
    /\ \A r \in Runners : RunPaid(r)
    /\ \A b \in batch : b.no <= Lim(b.act)

PaidInv == DrainInv /\ Once /\ Rising /\ Paid

-----------------------------------------------------------------------------
(* The shapes a step can have, as far as attempts are concerned.           *)

Others(r) == \A q \in Runners \ {r} : run'[q] = run[q]

\* No runner moves; a deadline may pass.
StillStep ==
    /\ UNCHANGED <<run, tick, batch>>
    /\ faults' \in {faults, faults + 1}
    /\ \A a \in Actions :
         \/ row'[a] = row[a]
         \/ /\ row'[a].status = row[a].status /\ row'[a].attempts = row[a].attempts
            /\ \/ row[a].status = "QUEUED"
               \/ \A r \in Runners : ~Holds(r, a)
               \/ faults' = faults + 1

MildMoves == {<<"approved", "mirrored">>, <<"rejecting", "rejected">>, <<"running", "ok">>,
              <<"running", "transient">>, <<"running", "permanent">>, <<"dead", "failed">>}

\* A runner moves on, or rests, without a write to a row.
MildStep(r) ==
    /\ Others(r)
    /\ run[r].pc # "idle"
    /\ UNCHANGED <<row, tick, batch>>
    /\ faults' \in {faults, faults + 1}
    /\ \/ /\ run'[r].pc = "idle"
          /\ run[r].pc \in InFlightPcs \cup {"infra"} => faults' = faults + 1
       \/ /\ run'[r].act = run[r].act /\ run'[r].no = run[r].no
          /\ <<run[r].pc, run'[r].pc>> \in MildMoves

\* A runner's claim or outcome, written or not.
Claims(r, e) ==
    /\ run[r].pc = "ready" /\ row[e].status = "QUEUED" /\ row'[e] = ClaimedRow(run[r].no)
    /\ \/ run'[r].pc = "running" /\ faults' = faults
       \/ run'[r].pc \in {"idle", "infra"} /\ faults' = faults + 1

Settles(r, e) ==
    /\ run[r].pc \in InFlightPcs
    /\ run'[r].pc \in {"idle", "infra", "completed", "dead", "transient", "permanent"}
    /\ faults' \in {faults, faults + 1}
    /\ \/ row'[e] = CompletedRow(run[r].no)
       \/ \E class : row'[e] = FailedRow(class, run[r].no)

Misses(r, e) ==
    /\ row'[e] = row[e] /\ faults' = faults + 1
    /\ \/ run'[r].pc \in {"idle", "infra"}
       \/ run[r].pc = "ok" /\ run'[r].pc \in {"transient", "permanent"}

WriteStep(r) ==
    LET e == run[r].act IN
    /\ e \in Actions /\ Others(r)
    /\ run[r].pc \in {"ready"} \cup InFlightPcs
    /\ UNCHANGED <<tick, batch>>
    /\ \A a \in Actions \ {e} : row'[a] = row[a]
    /\ run'[r].pc = "idle" \/ (run'[r].act = e /\ run'[r].no = run[r].no)
    /\ run'[r].pc = "infra" => r = Drainer /\ faults' = faults + 1
    /\ Claims(r, e) \/ Settles(r, e) \/ Misses(r, e)

Approves(s) == CommitApproval(s) /\ StillPending(run[s].act)

Shapes ==
    \/ StillStep \/ Reclaim \/ WakeSnoozed \/ FindDue \/ NextRow \/ ResetRow \/ CrashTick
    \/ \E s \in Slots, a \in Actions, p \in {"approving", "rejecting", "snoozing"} :
         ReadPending(s, a, p)
    \/ \E s \in Slots : Approves(s) \/ ReadRow(s)
    \/ \E r \in Runners : MildStep(r) \/ WriteStep(r)

LEMMA PaidTypes ==
  ASSUME TypeOK
  PROVE  /\ row \in [Actions -> RowType] /\ run \in [Runners -> RunType] /\ RunTypeOK
         /\ faults \in Nat /\ batch \in SUBSET [act : Actions, no : Nat]
         /\ Drainer \in Runners /\ Slots \subseteq Runners /\ Drainer \notin Slots
         /\ MaxAttempts \in Nat \ {0}
         /\ \A r \in Runners : run[r].pc # "idle" => run[r].act \in Actions
  BY OutboxAssumption DEF TypeOK, RowTypeOK, RunTypeOK, GhostTypeOK, LoopTypeOK, Runners

LEMMA Turns ==
  ASSUME TypeOK, NEW r \in Runners
  PROVE  /\ \A p : Goto(r, p) => /\ run'[r].pc = p /\ run'[r].act = run[r].act
                                /\ run'[r].no = run[r].no /\ Others(r)
         /\ Rest(r) => run'[r].pc = "idle" /\ Others(r)
<1>1. run \in [Runners -> RunType] /\ RunTypeOK
  BY PaidTypes
<1>2. ASSUME NEW p, Goto(r, p) PROVE run'[r].no = run[r].no
  BY <1>1, <1>2 DEF Goto, RunType
<1> QED BY <1>1, <1>2, Moves DEF Others

LEMMA RequestShape ==
  ASSUME TypeOK, NEW s \in Slots, RequestStep(s)
  PROVE  Approves(s) \/ ReadRow(s) \/ MildStep(s)
<1> USE DEF At
<1>t. s \in Runners
  BY PaidTypes
<1>1. CASE CommitApproval(s) /\ ~Approves(s)
  <2>1. Rest(s) /\ run[s].pc = "approving" /\ UNCHANGED <<row, tick, batch, faults>>
    BY <1>1 DEF CommitApproval, Approves
  <2> QED BY <1>t, <2>1, Turns DEF MildStep, InFlightPcs
<1>2. CASE MirrorApproval(s)
  <2>1. Goto(s, "mirrored") /\ run[s].pc = "approved" /\ UNCHANGED <<row, tick, batch, faults>>
    BY <1>2 DEF MirrorApproval
  <2> QED BY <1>t, <2>1, Turns DEF MildStep, MildMoves
<1>3. CASE CommitReject(s)
  <2>1. /\ Goto(s, "rejected") \/ Rest(s)
        /\ run[s].pc = "rejecting" /\ UNCHANGED <<row, tick, batch, faults>>
    BY <1>3 DEF CommitReject
  <2> QED BY <1>t, <2>1, Turns DEF MildStep, MildMoves, InFlightPcs
<1>4. CASE MirrorReject(s) \/ WriteSnooze(s)
  <2>1. /\ Rest(s) /\ run[s].pc \in {"rejected", "snoozing"}
        /\ UNCHANGED <<row, tick, batch, faults>>
    BY <1>4 DEF MirrorReject, WriteSnooze
  <2> QED BY <1>t, <2>1, Turns DEF MildStep, InFlightPcs
<1> QED BY <1>1, <1>2, <1>3, <1>4 DEF RequestStep

LEMMA AttemptShape ==
  ASSUME TypeOK, NEW r \in Runners, AttemptStep(r)
  PROVE  MildStep(r) \/ WriteStep(r)
<1> USE DEF At
<1>t. row \in [Actions -> RowType]
  BY PaidTypes
<1>e. PICK e \in Actions : e = run[r].act
  BY PaidTypes DEF AttemptStep, Claim, ToolSucceeds, ToolFails, WriteCompleted, WriteFailure,
     OnCompleted, OnDead, MirrorFailure
<1>1. CASE Claim(r) /\ Claimable(e)
  <2>1. /\ Goto(r, "running") /\ run[r].pc = "ready" /\ UNCHANGED <<tick, batch, faults>>
        /\ row' = [row EXCEPT ![e] = ClaimedRow(run[r].no)] /\ row[e].status = "QUEUED"
    BY <1>1, <1>e DEF Claim, Claimable
  <2>2. Claims(r, e) /\ Others(r) /\ run'[r].act = e /\ run'[r].no = run[r].no
        /\ run'[r].pc = "running"
    BY <1>t, <1>e, <2>1, Turns DEF Claims
  <2> QED BY <1>t, <1>e, <2>1, <2>2 DEF WriteStep
<1>2. CASE Claim(r) /\ ~Claimable(e)
  <2>1. Rest(r) /\ run[r].pc = "ready" /\ UNCHANGED <<row, tick, batch, faults>>
    BY <1>2, <1>e DEF Claim
  <2> QED BY <2>1, Turns DEF MildStep, InFlightPcs
<1>3. CASE ToolSucceeds(r) \/ ToolFails(r)
  <2>1. PICK p \in {"ok", "transient", "permanent"} : Goto(r, p)
    BY <1>3 DEF ToolSucceeds, ToolFails
  <2>2. run[r].pc = "running" /\ UNCHANGED <<row, tick, batch, faults>>
    BY <1>3 DEF ToolSucceeds, ToolFails
  <2> QED BY <2>1, <2>2, Turns DEF MildStep, MildMoves
<1>4. CASE WriteCompleted(r)
  <2>1. /\ Goto(r, "completed") /\ run[r].pc = "ok" /\ UNCHANGED <<tick, batch, faults>>
        /\ row' = [row EXCEPT ![e] = CompletedRow(run[r].no)]
    BY <1>4, <1>e DEF WriteCompleted
  <2>2. Settles(r, e) /\ Others(r) /\ run'[r].act = e /\ run'[r].no = run[r].no
        /\ run'[r].pc = "completed"
    BY <1>t, <1>e, <2>1, Turns DEF Settles, InFlightPcs
  <2> QED BY <1>t, <1>e, <2>1, <2>2 DEF WriteStep, InFlightPcs
<1>5. CASE WriteFailure(r)
  <2>1. /\ Rest(r) \/ Goto(r, "dead")
        /\ run[r].pc \in {"transient", "permanent"} /\ UNCHANGED <<tick, batch, faults>>
        /\ row' = [row EXCEPT ![e] = FailedRow(run[r].pc, run[r].no)]
    BY <1>5, <1>e DEF WriteFailure
  <2>2. /\ Others(r) /\ run'[r].pc \in {"idle", "dead"}
        /\ run'[r].pc = "idle" \/ (run'[r].act = e /\ run'[r].no = run[r].no)
    BY <1>e, <2>1, Turns
  <2>3. Settles(r, e)
    BY <1>t, <1>e, <2>1, <2>2 DEF Settles, InFlightPcs
  <2> QED BY <1>t, <1>e, <2>1, <2>2, <2>3 DEF WriteStep, InFlightPcs
<1>6. CASE OnCompleted(r) \/ MirrorFailure(r)
  <2>1. /\ Rest(r) /\ run[r].pc \in {"completed", "failed"}
        /\ UNCHANGED <<row, tick, batch, faults>>
    BY <1>6 DEF OnCompleted, MirrorFailure
  <2> QED BY <2>1, Turns DEF MildStep, InFlightPcs
<1>7. CASE OnDead(r)
  <2>1. Goto(r, "failed") /\ run[r].pc = "dead" /\ UNCHANGED <<row, tick, batch, faults>>
    BY <1>7 DEF OnDead
  <2> QED BY <2>1, Turns DEF MildStep, MildMoves
<1> QED BY <1>e, <1>1, <1>2, <1>3, <1>4, <1>5, <1>6, <1>7 DEF AttemptStep

LEMMA FailShape ==
  ASSUME TypeOK, NEW r \in Runners,
         ClaimFails(r) \/ CompletedWriteFails(r) \/ FailureWriteFails(r)
  PROVE  WriteStep(r)
<1> USE DEF At
<1>t. row \in [Actions -> RowType] /\ faults \in Nat
  BY PaidTypes
<1>e. PICK e \in Actions : e = run[r].act
  BY PaidTypes DEF ClaimFails, CompletedWriteFails, FailureWriteFails, InFlightPcs
<1>f. ASSUME NEW x, FailingWrite(e, x)
      PROVE  /\ faults' = faults + 1 /\ \A a \in Actions \ {e} : row'[a] = row[a]
             /\ row'[e] = row[e] \/ row'[e] = x
  BY <1>t, <1>f DEF FailingWrite, Fault
<1>x. ASSUME Escape(r)
      PROVE  /\ Others(r) /\ run'[r].pc \in {"idle", "infra"}
             /\ run'[r].pc = "idle" \/ (run'[r].act = e /\ run'[r].no = run[r].no)
             /\ run'[r].pc = "infra" => r = Drainer
  BY <1>x, <1>e, Turns DEF Escape
<1>1. CASE ClaimFails(r)
  <2>1. /\ run[r].pc = "ready" /\ Escape(r) /\ UNCHANGED <<tick, batch>>
        /\ FailingWrite(e, IF Claimable(e) THEN ClaimedRow(run[r].no) ELSE row[e])
    BY <1>1, <1>e DEF ClaimFails
  <2>2. /\ faults' = faults + 1 /\ \A a \in Actions \ {e} : row'[a] = row[a]
        /\ row'[e] = row[e] \/ (row[e].status = "QUEUED" /\ row'[e] = ClaimedRow(run[r].no))
    BY <1>f, <2>1 DEF Claimable
  <2>3. Claims(r, e) \/ Misses(r, e)
    BY <1>x, <2>1, <2>2 DEF Claims, Misses
  <2> QED BY <1>e, <1>x, <2>1, <2>2, <2>3 DEF WriteStep
<1>2. CASE CompletedWriteFails(r)
  <2>1. /\ run[r].pc = "ok" /\ UNCHANGED <<tick, batch>>
        /\ FailingWrite(e, CompletedRow(run[r].no))
    BY <1>2, <1>e DEF CompletedWriteFails
  <2>2. PICK p \in {"transient", "permanent"} : Goto(r, p)
    BY <1>2 DEF CompletedWriteFails
  <2>3. /\ Others(r) /\ run'[r].pc \in {"transient", "permanent"} /\ run'[r].act = e
        /\ run'[r].no = run[r].no
    BY <1>e, <2>2, Turns
  <2>4. /\ faults' = faults + 1 /\ \A a \in Actions \ {e} : row'[a] = row[a]
        /\ row'[e] = row[e] \/ row'[e] = CompletedRow(run[r].no)
    BY <1>f, <2>1
  <2>5. Settles(r, e) \/ Misses(r, e)
    BY <2>1, <2>3, <2>4 DEF Settles, Misses, InFlightPcs
  <2> QED BY <1>e, <2>1, <2>3, <2>4, <2>5 DEF WriteStep, InFlightPcs
<1>3. CASE FailureWriteFails(r)
  <2>1. /\ run[r].pc \in {"transient", "permanent"} /\ Escape(r) /\ UNCHANGED <<tick, batch>>
        /\ FailingWrite(e, FailedRow(run[r].pc, run[r].no))
    BY <1>3, <1>e DEF FailureWriteFails
  <2>2. /\ faults' = faults + 1 /\ \A a \in Actions \ {e} : row'[a] = row[a]
        /\ row'[e] = row[e] \/ row'[e] = FailedRow(run[r].pc, run[r].no)
    BY <1>f, <2>1
  <2>3. Settles(r, e) \/ Misses(r, e)
    BY <1>x, <2>1, <2>2 DEF Settles, Misses, InFlightPcs
  <2> QED BY <1>e, <1>x, <2>1, <2>2, <2>3 DEF WriteStep, InFlightPcs
<1> QED BY <1>1, <1>2, <1>3

LEMMA FaultShape ==
  ASSUME TypeOK, FaultStep
  PROVE  StillStep \/ CrashTick \/ \E r \in Runners : MildStep(r) \/ WriteStep(r)
<1> USE DEF At
<1>t. /\ Slots \subseteq Runners /\ Drainer \in Runners /\ row \in [Actions -> RowType]
      /\ faults \in Nat
  BY PaidTypes
<1>1. ASSUME NEW s \in Slots, CrashSlot(s) PROVE MildStep(s)
  BY <1>1, <1>t, Turns DEF CrashSlot, MildStep, Fault
<1>2. ASSUME NEW s \in Slots, MirrorApprovalFails(s) PROVE MildStep(s)
  <2>1. /\ Goto(s, "mirrored") /\ run[s].pc = "approved" /\ faults' = faults + 1
        /\ UNCHANGED <<row, tick, batch>>
    BY <1>2 DEF MirrorApprovalFails, Fault
  <2> QED BY <1>t, <2>1, Turns DEF MildStep, MildMoves
<1>3. ASSUME NEW r \in Runners, ToolMisreports(r) PROVE MildStep(r)
  <2>1. PICK p \in {"transient", "permanent"} : Goto(r, p)
    BY <1>3 DEF ToolMisreports
  <2>2. run[r].pc = "running" /\ faults' = faults + 1 /\ UNCHANGED <<row, tick, batch>>
    BY <1>3 DEF ToolMisreports, Fault
  <2> QED BY <2>1, <2>2, Turns DEF MildStep, MildMoves
<1>4. ASSUME NEW r \in Runners, SideEffectsFail(r) PROVE MildStep(r)
  BY <1>4, Turns DEF SideEffectsFail, MildStep, Fault, InFlightPcs
<1>5. CASE ResetFails
  BY <1>5, <1>t, Turns DEF ResetFails, MildStep, Fault
<1>6. CASE CrashSweep
  BY <1>6 DEF CrashSweep, StillStep, Fault
<1>7. ASSUME NEW a \in Actions, SlowAttempt(a) PROVE StillStep
  <2>1. /\ UNCHANGED <<run, tick, batch>> /\ faults' = faults + 1
        /\ row' = [row EXCEPT ![a].ripe = TRUE]
    BY <1>7 DEF SlowAttempt, Fault
  <2>2. \A b \in Actions : /\ row'[b].status = row[b].status
                           /\ row'[b].attempts = row[b].attempts
    BY <1>t, <2>1 DEF RowType
  <2> QED BY <2>1, <2>2 DEF StillStep
<1> QED
  BY <1>t, <1>1, <1>2, <1>3, <1>4, <1>5, <1>6, <1>7, FailShape DEF FaultStep

LEMMA StepShapes == ASSUME TypeOK, [Next]_vars PROVE Shapes
<1>t. row \in [Actions -> RowType] /\ Drainer \in Runners /\ Slots \subseteq Runners
  BY PaidTypes
<1>1. ASSUME NEW a \in Actions, ClockPasses(a) PROVE StillStep
  <2>1. /\ UNCHANGED <<run, tick, batch, faults>> /\ row' = [row EXCEPT ![a].ripe = TRUE]
        /\ row[a].status = "QUEUED" \/ InFlight(a) = {}
    BY <1>1 DEF ClockPasses
  <2>2. /\ \A b \in Actions : /\ row'[b].status = row[b].status
                              /\ row'[b].attempts = row[b].attempts
        /\ \A b \in Actions \ {a} : row'[b] = row[b]
    BY <1>t, <2>1 DEF RowType
  <2>3. row[a].status = "QUEUED" \/ \A r \in Runners : ~Holds(r, a)
    BY <2>1 DEF InFlight, Holds
  <2> QED BY <2>1, <2>2, <2>3 DEF StillStep
<1>2. CASE SweepStep \/ UNCHANGED vars
  <2>1. UNCHANGED <<row, run, tick, batch, faults>>
    BY <1>2 DEF SweepStep, ExpiryReads, ExpiryClaims, ExpiryMirrors, vars
  <2> QED BY <2>1 DEF StillStep, Shapes
<1> QED
  BY <1>t, <1>1, <1>2, RequestShape, AttemptShape, FaultShape DEF Next, Shapes, TickStep

-----------------------------------------------------------------------------
(* The drain.                                                              *)

\* A step that leaves the tick, the snapshot and the number of faults alone
\* or adds one, and moves the drain on from where it is.
LEMMA DrainFrame ==
  ASSUME TypeOK, DrainInv, UNCHANGED <<tick, batch>>, faults' \in {faults, faults + 1},
         \A s \in Slots : run'[s].pc # "infra",
         \/ run'[Drainer] = run[Drainer]
         \/ /\ run[Drainer].pc # "idle"
            /\ run'[Drainer].pc = "idle" \/ run'[Drainer].act = run[Drainer].act
            /\ run'[Drainer].pc = "infra" => faults' = faults + 1
  PROVE  DrainInv'
<1>t. faults \in Nat
  BY PaidTypes
<1> QED BY <1>t DEF DrainInv

LEMMA NextDrain == ASSUME TypeOK, DrainInv, Shapes PROVE DrainInv'
<1>t. /\ run \in [Runners -> RunType] /\ faults \in Nat /\ Drainer \in Runners
      /\ Slots \subseteq Runners /\ Drainer \notin Slots
      /\ batch \in SUBSET [act : Actions, no : Nat]
      /\ \A r \in Runners : run[r].pc # "idle" => run[r].act \in Actions
  BY PaidTypes
<1>i. \A s \in Slots : run[s].pc # "infra"
  BY DEF DrainInv
<1>1. CASE StillStep
  BY <1>1, <1>i, DrainFrame DEF StillStep
<1>2. CASE Reclaim \/ WakeSnoozed
  BY <1>2 DEF Reclaim, WakeSnoozed, DrainInv, At
<1>3. CASE FindDue
  <2>1. PICK B \in SUBSET Due : batch' = {[act |-> a, no |-> row[a].attempts + 1] : a \in B}
    BY <1>3 DEF FindDue
  <2>2. /\ tick' = "draining" /\ UNCHANGED <<run, faults>> /\ run[Drainer].pc = "idle"
    BY <1>3 DEF FindDue, DrainInv
  <2> QED BY <2>1, <2>2 DEF DrainInv
<1>4. CASE NextRow
  <2>1. PICK b \in batch : Start(Drainer, "ready", b.act, b.no) /\ batch' = batch \ {b}
    BY <1>4 DEF NextRow
  <2>2. /\ run'[Drainer].pc = "ready" /\ run'[Drainer].act = b.act /\ Others(Drainer)
        /\ tick = "draining" /\ UNCHANGED <<tick, faults>>
    BY <1>4, <1>t, <2>1 DEF NextRow, Start, Others
  <2>3. \A s \in Slots : run'[s].pc # "infra"
    BY <1>t, <1>i, <2>2 DEF Others
  <2> QED BY <2>1, <2>2, <2>3 DEF DrainInv
<1>5. CASE ResetRow
  <2>1. /\ Rest(Drainer) /\ run[Drainer].pc = "infra" /\ UNCHANGED <<tick, batch, faults>>
    BY <1>5 DEF ResetRow, At
  <2> QED BY <1>t, <1>i, <2>1, Turns, DrainFrame DEF Others
<1>6. CASE CrashTick
  <2>1. /\ Rest(Drainer) /\ batch' = {} /\ faults' = faults + 1
    BY <1>6 DEF CrashTick, Fault
  <2>2. run'[Drainer].pc = "idle" /\ \A s \in Slots : run'[s] = run[s]
    BY <1>t, <2>1, Turns DEF Others
  <2> QED BY <1>t, <1>i, <2>1, <2>2 DEF DrainInv
<1>7. ASSUME NEW s \in Slots, NEW a \in Actions, NEW p \in {"approving", "rejecting", "snoozing"},
             ReadPending(s, a, p)
      PROVE  DrainInv'
  <2>1. /\ UNCHANGED <<tick, batch, faults>> /\ run'[s].pc = p
        /\ \A q \in Runners \ {s} : run'[q] = run[q]
    BY <1>7, <1>t DEF ReadPending, Start
  <2> QED BY <1>t, <1>i, <2>1, DrainFrame
<1>8. ASSUME NEW s \in Slots, Approves(s) PROVE DrainInv'
  <2>1. /\ Goto(s, "approved") /\ UNCHANGED <<tick, batch, faults>>
    BY <1>8 DEF Approves, CommitApproval
  <2>2. /\ run'[s].pc = "approved" /\ \A q \in Runners \ {s} : run'[q] = run[q]
    BY <1>t, <2>1, Turns DEF Others
  <2> QED BY <1>t, <1>i, <2>1, <2>2, DrainFrame
<1>9. ASSUME NEW s \in Slots, ReadRow(s) PROVE DrainInv'
  <2>1. /\ UNCHANGED <<tick, batch, faults>> /\ run'[s].pc = "ready"
        /\ \A q \in Runners \ {s} : run'[q] = run[q]
    BY <1>9, <1>t DEF ReadRow, Start
  <2> QED BY <1>t, <1>i, <2>1, DrainFrame
<1>10. ASSUME NEW r \in Runners, MildStep(r) PROVE DrainInv'
  <2>1. /\ UNCHANGED <<tick, batch>> /\ faults' \in {faults, faults + 1}
        /\ \A q \in Runners \ {r} : run'[q] = run[q]
        /\ run[r].pc # "idle"
        /\ run'[r].pc = "idle" \/ run'[r].act = run[r].act
        /\ run'[r].pc # "infra"
    BY <1>10 DEF MildStep, MildMoves, Others
  <2> QED BY <1>t, <1>i, <2>1, DrainFrame
<1>11. ASSUME NEW r \in Runners, WriteStep(r) PROVE DrainInv'
  <2>1. /\ UNCHANGED <<tick, batch>> /\ faults' \in {faults, faults + 1}
        /\ \A q \in Runners \ {r} : run'[q] = run[q]
        /\ run[r].pc # "idle"
        /\ run'[r].pc = "idle" \/ run'[r].act = run[r].act
        /\ run'[r].pc = "infra" => r = Drainer /\ faults' = faults + 1
    BY <1>11 DEF WriteStep, Claims, Settles, Misses, Others, InFlightPcs
  <2> QED BY <1>t, <1>i, <2>1, DrainFrame
<1> QED
  BY <1>1, <1>2, <1>3, <1>4, <1>5, <1>6, <1>7, <1>8, <1>9, <1>10, <1>11 DEF Shapes

-----------------------------------------------------------------------------
(* One approver.                                                           *)

LEMMA OnceFrame ==
  ASSUME Once,
         \A s \in Slots : Approver(s)' => Approver(s) /\ run'[s].act = run[s].act
  PROVE  Once'
  BY DEF Once

LEMMA NextOnce == ASSUME TypeOK, IntentInv, Once, Shapes PROVE Once'
<1>t. /\ run \in [Runners -> RunType] /\ Drainer \in Runners
      /\ Slots \subseteq Runners /\ Drainer \notin Slots
      /\ \A r \in Runners : run[r].pc # "idle" => run[r].act \in Actions
  BY PaidTypes
<1>1. CASE StillStep \/ Reclaim \/ WakeSnoozed \/ FindDue
  <2>1. run' = run
    BY <1>1 DEF StillStep, Reclaim, WakeSnoozed, FindDue
  <2> QED BY <2>1, OnceFrame DEF Approver
<1>2. CASE NextRow \/ ResetRow \/ CrashTick
  <2>1. \A s \in Slots : run'[s] = run[s]
    BY <1>2, <1>t, Turns DEF NextRow, Start, ResetRow, CrashTick, Others
  <2> QED BY <2>1, OnceFrame DEF Approver
<1>3. ASSUME NEW s \in Slots, NEW a \in Actions, NEW p \in {"approving", "rejecting", "snoozing"},
             ReadPending(s, a, p)
      PROVE  Once'
  <2>1. run'[s].pc = p /\ \A q \in Slots \ {s} : run'[q] = run[q]
    BY <1>3, <1>t DEF ReadPending, Start
  <2> QED BY <2>1, OnceFrame DEF Approver, AttemptPcs, InFlightPcs
<1>4. ASSUME NEW s \in Slots, Approves(s) PROVE Once'
  <2>1. /\ run[s].pc # "idle" /\ pa[run[s].act] = "PENDING" /\ Goto(s, "approved")
    BY <1>4 DEF Approves, CommitApproval, StillPending, At
  <2>2. row[run[s].act].status = "NONE"
    BY <1>t, <2>1 DEF IntentInv, ApprovalHasIntent, Approved
  <2>3. \A q \in Slots : Approver(q) => run[q].act # run[s].act
    BY <1>t, <2>2 DEF IntentInv, RunnerHasRow, Approver, ExecutingPcs
  <2>4. run'[s].act = run[s].act /\ \A q \in Slots \ {s} : run'[q] = run[q]
    BY <1>t, <2>1, Turns DEF Others
  <2> QED BY <2>3, <2>4 DEF Once, Approver
<1>5. ASSUME NEW s \in Slots, ReadRow(s) PROVE Once'
  <2>1. /\ run[s].pc = "mirrored" /\ run'[s].act = run[s].act
        /\ \A q \in Slots \ {s} : run'[q] = run[q]
    BY <1>5, <1>t DEF ReadRow, Start, At
  <2> QED BY <2>1, OnceFrame DEF Approver
<1>6. ASSUME NEW r \in Runners, MildStep(r) PROVE Once'
  <2>1. /\ \A q \in Runners \ {r} : run'[q] = run[q]
        /\ Approver(r)' => Approver(r) /\ run'[r].act = run[r].act
    BY <1>6 DEF MildStep, MildMoves, Others, Approver, AttemptPcs, InFlightPcs
  <2> QED BY <1>t, <2>1, OnceFrame DEF Approver
<1>7. ASSUME NEW r \in Runners, WriteStep(r) PROVE Once'
  <2>1. /\ \A q \in Runners \ {r} : run'[q] = run[q]
        /\ Approver(r)' => Approver(r) /\ run'[r].act = run[r].act
    BY <1>7 DEF WriteStep, Others, Approver, AttemptPcs, InFlightPcs
  <2> QED BY <1>t, <2>1, OnceFrame DEF Approver
<1> QED BY <1>1, <1>2, <1>3, <1>4, <1>5, <1>6, <1>7 DEF Shapes

-----------------------------------------------------------------------------
(* Attempts rise.                                                          *)

\* No counter is written; nobody comes to await or to run.
LEMMA RisingFrame ==
  ASSUME Rising, Slots \subseteq Runners, Drainer \in Runners,
         \A a \in Actions : row'[a].attempts = row[a].attempts,
         \A r \in Runners : run[r].pc # "idle" => run[r].act \in Actions,
         \A s \in Slots : Awaiting(s)' => /\ Awaiting(s) /\ run'[s].act = run[s].act
                                          /\ run'[s].pc = "ready" => run'[s] = run[s],
         run'[Drainer].pc \in InFlightPcs => /\ run[Drainer].pc \in InFlightPcs
                                             /\ run'[Drainer].act = run[Drainer].act
                                             /\ run'[Drainer].no = run[Drainer].no,
         run'[Drainer].pc = "ready" => run'[Drainer] = run[Drainer],
         batch' \subseteq batch
  PROVE  Rising'
<1> SUFFICES ASSUME NEW s \in Slots, Awaiting(s)' PROVE Rises(s)'
  BY DEF Rising, Rises
<1>1. /\ Awaiting(s) /\ run'[s].act = run[s].act /\ run[s].act \in Actions /\ Rises(s)
      /\ run'[s].pc = "ready" => run'[s] = run[s]
  BY DEF Rising, Awaiting
<1> QED BY <1>1 DEF Rises, Holds, InFlightPcs

\* A runner writes the counter of its own action.
LEMMA WriteRises ==
  ASSUME TypeOK, DrainInv, Once, Rising, NEW r \in Runners, WriteStep(r)
  PROVE  Rising'
<1>t. /\ run \in [Runners -> RunType] /\ row \in [Actions -> RowType]
      /\ Drainer \in Runners /\ Slots \subseteq Runners /\ Drainer \notin Slots
      /\ \A q \in Runners : run[q].pc # "idle" => run[q].act \in Actions
  BY PaidTypes
<1>e. PICK e \in Actions : e = run[r].act
  BY DEF WriteStep
<1>w. /\ \A q \in Runners \ {r} : run'[q] = run[q]
      /\ run[r].pc \in {"ready"} \cup InFlightPcs /\ batch' = batch
      /\ \A a \in Actions \ {e} : row'[a] = row[a]
      /\ run'[r].pc = "idle" \/ (run'[r].act = e /\ run'[r].no = run[r].no)
      /\ Claims(r, e) \/ Settles(r, e) \/ Misses(r, e)
  BY <1>e DEF WriteStep, Others
<1>f. \A no : /\ ClaimedRow(no).attempts = no /\ CompletedRow(no).attempts = no
              /\ \A class : FailedRow(class, no).attempts = no
  BY DEF ClaimedRow, CompletedRow, FailedRow
<1>n. row'[e].attempts \in {row[e].attempts, run[r].no} /\ ~Awaiting(r)'
  <2>1. row'[e].attempts \in {row[e].attempts, run[r].no}
    BY <1>w, <1>f DEF Claims, Settles, Misses
  <2>2. ~Awaiting(r)'
    BY <1>w DEF Claims, Settles, Misses, Awaiting
  <2> QED BY <2>1, <2>2
<1>c. run'[r].pc \in InFlightPcs =>
        row'[e].attempts = run[r].no \/ (run[r].pc \in InFlightPcs /\ row'[e] = row[e])
  <2>1. CASE Claims(r, e)
    BY <1>f, <2>1 DEF Claims
  <2>2. CASE Settles(r, e)
    BY <1>f, <2>2 DEF Settles
  <2>3. CASE Misses(r, e)
    BY <2>3 DEF Misses, InFlightPcs
  <2> QED BY <1>w, <2>1, <2>2, <2>3
<1> SUFFICES ASSUME NEW s \in Slots, Awaiting(s)' PROVE Rises(s)'
  BY DEF Rising, Rises
<1>1. s # r /\ run'[s] = run[s] /\ Awaiting(s) /\ Rises(s) /\ run[s].act \in Actions
  BY <1>t, <1>w, <1>n DEF Rising, Awaiting
<1>2. CASE run[s].act # e
  <2>1. row'[run[s].act] = row[run[s].act]
    BY <1>w, <1>1, <1>2
  <2>2. run'[Drainer].act = run[s].act /\ run'[Drainer].pc # "idle" => run'[Drainer] = run[Drainer]
    BY <1>t, <1>w, <1>2
  <2> QED BY <1>1, <1>w, <2>1, <2>2 DEF Rises, Holds, InFlightPcs
<1>3. CASE run[s].act = e
  <2>1. r = Drainer
    <3> SUFFICES ASSUME r \in Slots PROVE FALSE
      BY DEF Runners
    <3>1. Approver(s) /\ Approver(r)
      BY <1>1, <1>w DEF Approver, Awaiting, AttemptPcs
    <3> QED BY <1>1, <1>3, <1>e, <3>1 DEF Once
  <2>2. \A b \in batch : b.act # e
    BY <1>e, <1>w, <2>1 DEF DrainInv, InFlightPcs
  <2>3. /\ run[Drainer].no \in Nat /\ row[e].attempts \in Nat
        /\ run[Drainer].no >= row[e].attempts
        /\ run[Drainer].pc \in InFlightPcs => run[Drainer].no = row[e].attempts
    BY <1>t, <1>1, <1>3, <1>e, <1>w, <2>1 DEF Rises, Holds, RunType, RowType
  <2>4. row'[e].attempts \in Nat /\ row'[e].attempts >= row[e].attempts
    BY <1>n, <2>1, <2>3
  <2>5. run'[s].pc = "ready" => run'[s].no <= row'[e].attempts + 1
    <3>1. run[s].no \in Nat /\ (run[s].pc = "ready" => run[s].no <= row[e].attempts + 1)
      BY <1>t, <1>1, <1>3 DEF Rises, RunType
    <3> QED BY <1>1, <2>3, <2>4, <3>1
  <2>6. Holds(Drainer, e)' => run'[Drainer].no = row'[e].attempts
    BY <1>c, <1>w, <2>1, <2>3 DEF Holds, InFlightPcs
  <2>7. run'[Drainer].pc # "ready"
    BY <1>n, <2>1 DEF Awaiting
  <2> QED BY <1>1, <1>3, <1>w, <2>2, <2>5, <2>6, <2>7 DEF Rises
<1> QED BY <1>2, <1>3

LEMMA NextRises ==
  ASSUME TypeOK, IntentInv, DrainInv, Once, Rising, Shapes
  PROVE  Rising'
<1>t. /\ run \in [Runners -> RunType] /\ row \in [Actions -> RowType]
      /\ batch \in SUBSET [act : Actions, no : Nat]
      /\ Drainer \in Runners /\ Slots \subseteq Runners /\ Drainer \notin Slots
      /\ \A r \in Runners : run[r].pc # "idle" => run[r].act \in Actions
  BY PaidTypes
<1>1. CASE StillStep \/ Reclaim \/ WakeSnoozed
  <2>1. UNCHANGED <<run, batch>>
    BY <1>1 DEF StillStep, Reclaim, WakeSnoozed
  <2>2. \A a \in Actions : row'[a].attempts = row[a].attempts
    BY <1>1, <1>t DEF StillStep, Reclaim, WakeSnoozed, RowType
  <2> QED BY <1>t, <2>1, <2>2, RisingFrame DEF Awaiting
<1>2. CASE FindDue
  <2>1. PICK B \in SUBSET Due : batch' = {[act |-> a, no |-> row[a].attempts + 1] : a \in B}
    BY <1>2 DEF FindDue
  <2>2. UNCHANGED <<run, row>>
    BY <1>2 DEF FindDue
  <2>3. \A b \in batch' : b.act \in Actions /\ b.no >= row[b.act].attempts
    BY <1>t, <2>1 DEF Due, RowType
  <2> QED BY <2>2, <2>3 DEF Rising, Rises, Awaiting, Holds
<1>3. CASE NextRow
  <2>1. PICK b \in batch : Start(Drainer, "ready", b.act, b.no) /\ batch' = batch \ {b}
    BY <1>3 DEF NextRow
  <2>2. /\ run'[Drainer].pc = "ready" /\ run'[Drainer].act = b.act /\ run'[Drainer].no = b.no
        /\ \A q \in Runners \ {Drainer} : run'[q] = run[q] /\ row' = row
    BY <1>3, <1>t, <2>1 DEF NextRow, Start
  <2>3. \A s \in Slots : run'[s] = run[s]
    BY <1>t, <2>2
  <2>4. "ready" \notin InFlightPcs
    BY DEF InFlightPcs
  <2>5. row' = row
    BY <1>3 DEF NextRow
  <2> QED BY <2>1, <2>2, <2>3, <2>4, <2>5 DEF Rising, Rises, Awaiting, Holds
<1>4. CASE ResetRow \/ CrashTick
  <2>1. /\ Rest(Drainer) /\ batch' \subseteq batch
        /\ \A a \in Actions : row'[a].attempts = row[a].attempts
    BY <1>4, <1>t DEF ResetRow, CrashTick, RowType
  <2>2. run'[Drainer].pc = "idle" /\ \A s \in Slots : run'[s] = run[s]
    BY <1>t, <2>1, Turns DEF Others
  <2> QED BY <1>t, <2>1, <2>2, RisingFrame DEF Awaiting, InFlightPcs
<1>5. ASSUME NEW s \in Slots, NEW a \in Actions, NEW p \in {"approving", "rejecting", "snoozing"},
             ReadPending(s, a, p)
      PROVE  Rising'
  <2>1. /\ run'[s].pc = p /\ \A q \in Runners \ {s} : run'[q] = run[q]
        /\ UNCHANGED <<row, batch>>
    BY <1>5, <1>t DEF ReadPending, Start
  <2> QED BY <1>t, <2>1, RisingFrame DEF Awaiting
<1>6. ASSUME NEW s \in Slots, Approves(s) PROVE Rising'
  <2>1. /\ run[s].pc = "approving" /\ pa[run[s].act] = "PENDING" /\ Goto(s, "approved")
        /\ row' = [row EXCEPT ![run[s].act] = [status |-> "QUEUED", attempts |-> 0, ripe |-> TRUE]]
        /\ batch' = batch
    BY <1>6 DEF Approves, CommitApproval, StillPending, At
  <2>e. PICK e \in Actions : e = run[s].act
    BY <1>t, <2>1
  <2>2. row[e].status = "NONE"
    BY <2>e, <2>1 DEF IntentInv, ApprovalHasIntent, Approved
  <2>3. /\ \A q \in Runners : run[q].pc \in ExecutingPcs => run[q].act # e
        /\ \A b \in batch : b.act # e
    BY <2>2 DEF IntentInv, RunnerHasRow
  <2>4. run'[s].pc = "approved" /\ run'[s].act = e /\ \A q \in Runners \ {s} : run'[q] = run[q]
    BY <1>t, <2>e, <2>1, Turns DEF Others
  <2>5. \A a \in Actions \ {e} : row'[a] = row[a]
    BY <1>t, <2>e, <2>1
  <2>6. run'[Drainer] = run[Drainer] /\ InFlightPcs \cup {"ready"} \subseteq ExecutingPcs
    BY <1>t, <2>4 DEF ExecutingPcs, AttemptPcs
  <2>7. ASSUME NEW q \in Slots, Awaiting(q)' PROVE Rises(q)'
    <3>1. CASE q = s
      BY <1>t, <2>1, <2>3, <2>4, <2>6, <3>1 DEF Rises, Holds
    <3>2. CASE q # s
      <4>1. /\ run'[q] = run[q] /\ Awaiting(q) /\ run[q].act \in Actions \ {e} /\ Rises(q)
        BY <1>t, <2>3, <2>4, <2>7, <3>2 DEF Awaiting, ExecutingPcs, AttemptPcs, Rising
      <4> QED BY <2>1, <2>5, <2>6, <4>1 DEF Rises, Holds
    <3> QED BY <3>1, <3>2
  <2> QED BY <2>7 DEF Rising, Rises
<1>7. ASSUME NEW s \in Slots, ReadRow(s) PROVE Rising'
  <2>1. /\ run[s].pc = "mirrored" /\ run'[s].pc = "ready" /\ run'[s].act = run[s].act
        /\ run'[s].no = row[run[s].act].attempts + 1
        /\ \A q \in Runners \ {s} : run'[q] = run[q]
        /\ UNCHANGED <<row, batch>> /\ run[s].act \in Actions
    BY <1>7, <1>t DEF ReadRow, Start, At
  <2>2. run'[Drainer] = run[Drainer] /\ row[run[s].act].attempts + 1 <= row[run[s].act].attempts + 1
    BY <1>t, <2>1 DEF RowType
  <2>3. ASSUME NEW q \in Slots, Awaiting(q)' PROVE Rises(q)'
    <3>1. Awaiting(q) /\ Rises(q) /\ run'[q].act = run[q].act
      BY <1>t, <2>1, <2>3 DEF Awaiting, Rising
    <3> QED BY <1>t, <2>1, <2>2, <3>1 DEF Rises, Holds
  <2> QED BY <2>3 DEF Rising, Rises
<1>8. ASSUME NEW r \in Runners, MildStep(r) PROVE Rising'
  <2>1. /\ \A q \in Runners \ {r} : run'[q] = run[q] /\ UNCHANGED <<row, batch>>
        /\ run'[r].pc # "ready"
        /\ Awaiting(r)' => Awaiting(r) /\ run'[r].act = run[r].act
        /\ run'[r].pc \in InFlightPcs => /\ run[r].pc \in InFlightPcs /\ run'[r].act = run[r].act
                                         /\ run'[r].no = run[r].no
    BY <1>8 DEF MildStep, MildMoves, Others, Awaiting, InFlightPcs
  <2>2. UNCHANGED <<row, batch>>
    BY <1>8 DEF MildStep
  <2> QED BY <1>t, <2>1, <2>2, RisingFrame DEF Awaiting
<1>9. ASSUME NEW r \in Runners, WriteStep(r) PROVE Rising'
  BY <1>9, WriteRises
<1> QED
  BY <1>1, <1>2, <1>3, <1>4, <1>5, <1>6, <1>7, <1>8, <1>9 DEF Shapes

-----------------------------------------------------------------------------
(* Attempts are paid.                                                      *)

LEMMA LimType ==
  ASSUME TypeOK, DrainInv, NEW a
  PROVE  Lim(a) \in Nat /\ Lim(a) >= MaxAttempts /\ Lim(a) <= MaxAttempts + faults
  BY PaidTypes DEF Lim, Cleaning, DrainInv

\* A limit falls only when the drain takes over a row after a fault.
LEMMA LimSteps ==
  ASSUME TypeOK, faults' \in {faults, faults + 1}, NEW a
  PROVE  /\ (Cleaning(a)' => Cleaning(a)) => Lim(a)' >= Lim(a)
         /\ faults' = faults + 1 => Lim(a)' >= Lim(a)
         /\ faults' = faults + 1 /\ (Cleaning(a)' => Cleaning(a)) => Lim(a)' > Lim(a)
         /\ Cleaning(a) /\ ~Cleaning(a)' => Lim(a)' > Lim(a)
  BY PaidTypes DEF Lim

\* A step with a fault that writes no counter and leaves the drain no new row
\* to put back.
LEMMA FaultPaid ==
  ASSUME TypeOK, DrainInv, Paid, faults' = faults + 1,
         \A a \in Actions : row'[a].attempts = row[a].attempts,
         \A a \in Actions : Cleaning(a)' => Cleaning(a),
         \A r \in Runners : run'[r].pc \in InFlightPcs \/ run'[r].pc = "ready" =>
           \/ run'[r] = run[r]
           \/ /\ run'[r].pc \in InFlightPcs /\ run[r].pc \in InFlightPcs
              /\ run'[r].act = run[r].act /\ run'[r].no = run[r].no,
         batch' \subseteq batch
  PROVE  Paid'
<1>t. /\ row \in [Actions -> RowType] /\ run \in [Runners -> RunType]
      /\ batch \in SUBSET [act : Actions, no : Nat]
      /\ \A r \in Runners : run[r].pc # "idle" => run[r].act \in Actions
  BY PaidTypes
<1>l. \A a \in Actions : Lim(a) \in Nat /\ Lim(a)' \in Int /\ Lim(a)' > Lim(a)
  <2> TAKE a \in Actions
  <2> QED BY LimType, LimSteps, PaidTypes DEF Lim
<1>1. ASSUME NEW a \in Actions PROVE RowPaid(a)'
  <2>1. row[a].attempts \in Nat /\ row[a].attempts <= Lim(a)
    BY <1>t DEF Paid, RowPaid, RowType
  <2> QED BY <1>l, <2>1 DEF RowPaid
<1>2. ASSUME NEW r \in Runners PROVE RunPaid(r)'
  <2>1. CASE run'[r].pc \in InFlightPcs \/ (r = Drainer /\ run'[r].pc = "ready")
    <3>1. /\ run[r].pc \in InFlightPcs \/ (r = Drainer /\ run[r].pc = "ready")
          /\ run'[r].act = run[r].act /\ run'[r].no = run[r].no
      BY <2>1
    <3>2. PICK d \in Actions : d = run[r].act
      BY <1>t, <3>1 DEF InFlightPcs
    <3>3. run[r].no \in Nat /\ run[r].no <= Lim(d)
      BY <1>t, <3>1, <3>2 DEF Paid, RunPaid, RunType
    <3>4. run'[r].no <= Lim(d)'
      BY <1>l, <3>1, <3>3
    <3> QED BY <3>1, <3>2, <3>4 DEF RunPaid
  <2>2. CASE ~(run'[r].pc \in InFlightPcs \/ (r = Drainer /\ run'[r].pc = "ready"))
    BY <2>2 DEF RunPaid
  <2> QED BY <2>1, <2>2
<1>3. ASSUME NEW b \in batch' PROVE b.no <= Lim(b.act)'
  <2>1. b.no \in Nat /\ b.act \in Actions /\ b.no <= Lim(b.act)
    BY <1>t DEF Paid
  <2> QED BY <1>l, <2>1
<1> QED BY <1>1, <1>2, <1>3 DEF Paid

\* A step of one runner on one action.
LEMMA PaidFrame ==
  ASSUME TypeOK, DrainInv, Paid, faults' \in {faults, faults + 1}, batch' = batch,
         NEW r \in Runners, NEW e \in Actions, run[r].act = e \/ run[r].pc = "idle",
         \A q \in Runners \ {r} : run'[q] = run[q],
         \A a \in Actions \ {e} : row'[a] = row[a],
         run'[r].act = e \/ run'[r].pc \notin InFlightPcs \cup {"infra", "ready"},
         Lim(e)' >= Lim(e), RowPaid(e)', RunPaid(r)'
  PROVE  Paid'
<1>t. /\ row \in [Actions -> RowType] /\ run \in [Runners -> RunType]
      /\ batch \in SUBSET [act : Actions, no : Nat] /\ Drainer \in Runners
      /\ \A q \in Runners : run[q].pc # "idle" => run[q].act \in Actions
  BY PaidTypes
<1>c. \A a \in Actions \ {e} : Cleaning(a)' <=> Cleaning(a)
  BY <1>t DEF Cleaning
<1>l. \A a \in Actions : Lim(a) \in Nat /\ Lim(a)' \in Int /\ Lim(a)' >= Lim(a)
  <2> TAKE a \in Actions
  <2>1. a # e => Lim(a)' >= Lim(a)
    BY <1>c, LimSteps
  <2> QED BY <2>1, LimType, PaidTypes DEF Lim
<1>1. ASSUME NEW a \in Actions \ {e} PROVE RowPaid(a)'
  <2>1. RowPaid(a) /\ row[a].attempts \in Nat /\ row'[a] = row[a]
    BY <1>t DEF Paid, RowType
  <2>2. (\A q \in Runners : ~Holds(q, a)') => (\A q \in Runners : ~Holds(q, a))
    BY DEF Holds, InFlightPcs
  <2> QED BY <1>l, <1>c, <2>1, <2>2 DEF RowPaid
<1>2. ASSUME NEW q \in Runners \ {r} PROVE RunPaid(q)'
  <2>1. RunPaid(q) /\ run'[q] = run[q] /\ run[q].no \in Nat
    BY <1>t DEF Paid, RunType
  <2>2. run[q].pc # "idle" => run[q].act \in Actions
    BY <1>t
  <2> QED BY <1>l, <2>1, <2>2 DEF RunPaid, InFlightPcs
<1>3. ASSUME NEW b \in batch' PROVE b.no <= Lim(b.act)'
  <2>1. b.no \in Nat /\ b.act \in Actions /\ b.no <= Lim(b.act)
    BY <1>t DEF Paid
  <2> QED BY <1>l, <2>1
<1> QED BY <1>1, <1>2, <1>3 DEF Paid

\* A step that moves no runner and writes no counter: a row that can be tried
\* again could be before.
LEMMA RestPaid ==
  ASSUME TypeOK, DrainInv, Paid, UNCHANGED <<run, faults>>,
         batch' = batch,
         \A a \in Actions :
           /\ row'[a].attempts = row[a].attempts
           /\ \/ row'[a] = row[a]
              \/ row'[a].status = row[a].status
                   /\ (row[a].status = "QUEUED" \/ \A r \in Runners : ~Holds(r, a))
              \/ row[a].status = "IN_PROGRESS" /\ row[a].ripe /\ ~Cleaning(a)
                   /\ row'[a].status = "QUEUED"
  PROVE  Paid'
<1>l. \A a : Lim(a)' = Lim(a) /\ (Cleaning(a)' <=> Cleaning(a))
  BY DEF Lim, Cleaning
<1>1. ASSUME NEW a \in Actions PROVE RowPaid(a)'
  <2>1. RowPaid(a)
    BY DEF Paid
  <2> QED BY <1>l, <2>1 DEF RowPaid, Holds
<1>2. \A r \in Runners : RunPaid(r)'
  BY <1>l DEF Paid, RunPaid
<1>3. \A b \in batch' : b.no <= Lim(b.act)'
  BY <1>l DEF Paid
<1> QED BY <1>1, <1>2, <1>3 DEF Paid

LEMMA MildPaid ==
  ASSUME TypeOK, DrainInv, Paid, NEW r \in Runners, MildStep(r)
  PROVE  Paid'
<1>t. /\ row \in [Actions -> RowType] /\ run \in [Runners -> RunType] /\ faults \in Nat
      /\ Drainer \in Runners
      /\ \A q \in Runners : run[q].pc # "idle" => run[q].act \in Actions
  BY PaidTypes
<1>m. /\ \A q \in Runners \ {r} : run'[q] = run[q]
      /\ run[r].pc # "idle" /\ row' = row /\ batch' = batch
      /\ faults' \in {faults, faults + 1}
      /\ run'[r].pc \notin {"infra", "ready"}
      /\ run'[r].pc \in InFlightPcs => /\ run[r].pc \in InFlightPcs
                                       /\ run'[r].act = run[r].act /\ run'[r].no = run[r].no
      /\ faults' = faults + 1 \/ (/\ run[r].pc # "infra"
                                  /\ run[r].pc \in InFlightPcs => /\ run'[r].pc \in InFlightPcs
                                                                  /\ run'[r].act = run[r].act)
  BY DEF MildStep, MildMoves, Others, InFlightPcs
<1>c. \A a \in Actions : Cleaning(a)' => Cleaning(a)
  BY <1>t, <1>m DEF Cleaning
<1>1. CASE faults' = faults + 1
  <2>1. \A q \in Runners : run'[q].pc \in InFlightPcs \/ run'[q].pc = "ready" =>
           \/ run'[q] = run[q]
           \/ /\ run'[q].pc \in InFlightPcs /\ run[q].pc \in InFlightPcs
              /\ run'[q].act = run[q].act /\ run'[q].no = run[q].no
    BY <1>m
  <2> QED BY <1>1, <1>c, <1>m, <2>1, FaultPaid
<1>2. CASE faults' # faults + 1
  <2>1. faults' = faults /\ \A a : Lim(a)' = Lim(a) /\ (Cleaning(a)' <=> Cleaning(a))
    BY <1>t, <1>m, <1>2 DEF Lim, Cleaning
  <2>2. \A a \in Actions : (\A q \in Runners : ~Holds(q, a)') => (\A q \in Runners : ~Holds(q, a))
    BY <1>m, <1>2 DEF Holds
  <2>3. \A a \in Actions : RowPaid(a)'
    BY <1>m, <2>1, <2>2 DEF Paid, RowPaid
  <2>4. \A q \in Runners : RunPaid(q)'
    <3> TAKE q \in Runners
    <3>1. \/ run'[q] = run[q]
          \/ run'[q].pc \notin InFlightPcs \cup {"ready"}
          \/ run[q].pc \in InFlightPcs /\ run'[q].act = run[q].act /\ run'[q].no = run[q].no
      BY <1>m
    <3> QED BY <2>1, <3>1 DEF Paid, RunPaid
  <2>5. \A b \in batch' : b.no <= Lim(b.act)'
    BY <1>m, <2>1 DEF Paid
  <2> QED BY <2>3, <2>4, <2>5 DEF Paid
<1> QED BY <1>1, <1>2

\* A claim or an outcome carries a number that is within the limit.
LEMMA WritePaid ==
  ASSUME TypeOK, DrainInv, DrainInv', TypeOK', Rising, Paid, NEW r \in Runners, WriteStep(r)
  PROVE  Paid'
<1>t. /\ row \in [Actions -> RowType] /\ run \in [Runners -> RunType] /\ faults \in Nat
      /\ Drainer \in Runners /\ MaxAttempts \in Nat \ {0}
  BY PaidTypes
<1>e. PICK e \in Actions : e = run[r].act
  BY DEF WriteStep
<1>w. /\ \A q \in Runners \ {r} : run'[q] = run[q]
      /\ run[r].pc \in {"ready"} \cup InFlightPcs /\ batch' = batch
      /\ \A a \in Actions \ {e} : row'[a] = row[a]
      /\ run'[r].pc = "idle" \/ (run'[r].act = e /\ run'[r].no = run[r].no)
      /\ run'[r].pc = "infra" => r = Drainer /\ faults' = faults + 1
      /\ Claims(r, e) \/ Settles(r, e) \/ Misses(r, e)
  BY <1>e DEF WriteStep, Others
<1>p. /\ faults' \in {faults, faults + 1} /\ run'[r].pc # "ready"
  BY <1>w DEF Claims, Settles, Misses
<1>d. "ready" \notin InFlightPcs /\ "idle" \notin InFlightPcs /\ "infra" \notin InFlightPcs
  BY DEF InFlightPcs
\* Where the drain stands before and after.
<1>c. /\ Cleaning(e)' => (r = Drainer /\ run'[r].pc = "infra") \/ (r # Drainer /\ Cleaning(e))
      /\ r = Drainer => ~Cleaning(e)
  BY <1>t, <1>w, <1>d DEF Cleaning, InFlightPcs
<1>n. /\ run[r].no \in Nat /\ row[e].attempts \in Nat /\ Lim(e) \in Nat /\ Lim(e)' \in Nat
      /\ Lim(e)' >= Lim(e) /\ Lim(e)' >= MaxAttempts
      /\ faults' = faults + 1 /\ ~(r = Drainer /\ run'[r].pc = "infra") => Lim(e)' > Lim(e)
  <2>1. run[r].no \in Nat /\ row[e].attempts \in Nat
    BY <1>t DEF RunType, RowType
  <2>2. Lim(e) \in Nat
    BY LimType
  <2>3. Lim(e)' \in Nat /\ Lim(e)' >= MaxAttempts
    <3>1. faults' \in Nat
      BY DEF TypeOK, GhostTypeOK
    <3>2. Cleaning(e)' => faults' > 0
      BY DEF Cleaning, DrainInv
    <3>3. Cleaning(e)' => Lim(e)' = MaxAttempts + faults' - 1
      BY DEF Lim
    <3>4. ~Cleaning(e)' => Lim(e)' = MaxAttempts + faults' - 0
      BY DEF Lim
    <3> QED BY <1>t, <3>1, <3>2, <3>3, <3>4
  <2>4. (Cleaning(e)' => Cleaning(e)) \/ faults' = faults + 1
    BY <1>c, <1>w
  <2>5. ~(r = Drainer /\ run'[r].pc = "infra") => (Cleaning(e)' => Cleaning(e))
    BY <1>c
  <2> QED BY <1>p, <2>1, <2>2, <2>3, <2>4, <2>5, LimSteps
<1>r. RowPaid(e)
  BY DEF Paid
\* The number the runner would write.
<1>o. /\ run[r].pc \in InFlightPcs \/ r = Drainer => run[r].no <= Lim(e)
      /\ row[e].status = "QUEUED" => run[r].no <= Lim(e)
  <2>1. run[r].pc \in InFlightPcs \/ r = Drainer => run[r].no <= Lim(e)
    BY <1>e, <1>w DEF Paid, RunPaid
  <2>2. CASE r \in Slots /\ run[r].pc = "ready" /\ row[e].status = "QUEUED"
    <3>1. run[r].no <= row[e].attempts + 1
      BY <1>e, <2>2 DEF Rising, Rises, Awaiting
    <3>2. row[e].attempts < Lim(e)
      BY <1>r, <2>2 DEF RowPaid
    <3> QED BY <1>n, <2>1, <3>1, <3>2
  <2> QED BY <1>w, <2>1, <2>2 DEF Runners
<1>1. RunPaid(r)'
  <2>1. CASE run'[r].pc \in InFlightPcs
    <3>1. run[r].no <= Lim(e)
      <4>1. CASE Claims(r, e)
        BY <1>o, <4>1 DEF Claims
      <4>2. CASE Settles(r, e)
        BY <1>o, <4>2 DEF Settles
      <4>3. CASE Misses(r, e)
        BY <1>o, <1>d, <2>1, <4>3 DEF Misses, InFlightPcs
      <4> QED BY <1>w, <4>1, <4>2, <4>3
    <3>2. run'[r].act = e /\ run'[r].no <= Lim(e)'
      BY <1>w, <1>n, <1>d, <2>1, <3>1
    <3> QED BY <3>2 DEF RunPaid
  <2>2. CASE run'[r].pc \notin InFlightPcs
    BY <1>p, <2>2 DEF RunPaid
  <2> QED BY <2>1, <2>2
<1>2. RowPaid(e)'
  <2>1. CASE Claims(r, e)
    <3>1. /\ row'[e].attempts = run[r].no /\ row'[e].status = "IN_PROGRESS" /\ ~row'[e].ripe
          /\ run[r].no <= Lim(e) /\ run'[r].pc \in {"running", "idle", "infra"}
          /\ run'[r].pc \in {"idle", "infra"} => faults' = faults + 1
      BY <1>o, <2>1 DEF Claims, ClaimedRow
    <3>2. run'[r].pc = "running" => Holds(r, e)'
      BY <1>w DEF Holds, InFlightPcs
    <3>3. run'[r].pc = "infra" => Cleaning(e)'
      BY <1>w DEF Cleaning
    <3> QED BY <1>n, <3>1, <3>2, <3>3 DEF RowPaid
  <2>2. CASE Settles(r, e)
    <3>1. /\ row'[e].attempts = run[r].no /\ run[r].no <= Lim(e)
          /\ row'[e].status # "IN_PROGRESS"
          /\ row'[e].status = "QUEUED" => run[r].no < MaxAttempts
      <4>1. run[r].no <= Lim(e)
        BY <1>o, <2>2 DEF Settles
      <4>2. CASE row'[e] = CompletedRow(run[r].no)
        BY <4>1, <4>2 DEF CompletedRow
      <4>3. ASSUME NEW class, row'[e] = FailedRow(class, run[r].no)
            PROVE  /\ row'[e].attempts = run[r].no /\ row'[e].status # "IN_PROGRESS"
                   /\ row'[e].status = "QUEUED" => run[r].no < MaxAttempts
        BY <4>3 DEF FailedRow
      <4> QED BY <2>2, <4>1, <4>2, <4>3 DEF Settles
    <3> QED BY <1>n, <1>t, <3>1 DEF RowPaid
  <2>3. CASE Misses(r, e)
    <3>1. row'[e] = row[e] /\ faults' = faults + 1
      BY <2>3 DEF Misses
    <3>2. CASE r = Drainer /\ run'[r].pc = "infra"
      <4>1. Cleaning(e)'
        BY <1>w, <3>2 DEF Cleaning
      <4> QED BY <1>n, <1>r, <3>1, <4>1 DEF RowPaid
    <3>3. CASE ~(r = Drainer /\ run'[r].pc = "infra")
      BY <1>n, <1>r, <3>1, <3>3 DEF RowPaid
    <3> QED BY <3>2, <3>3
  <2> QED BY <1>w, <2>1, <2>2, <2>3
<1> QED BY <1>e, <1>w, <1>p, <1>n, <1>d, <1>1, <1>2, PaidFrame

LEMMA NextPaid ==
  ASSUME TypeOK, TypeOK', IntentInv, DrainInv, DrainInv', Rising, Paid, Shapes
  PROVE  Paid'
<1>t. /\ run \in [Runners -> RunType] /\ row \in [Actions -> RowType] /\ faults \in Nat
      /\ batch \in SUBSET [act : Actions, no : Nat] /\ MaxAttempts \in Nat \ {0}
      /\ Drainer \in Runners /\ Slots \subseteq Runners /\ Drainer \notin Slots
      /\ \A r \in Runners : run[r].pc # "idle" => run[r].act \in Actions
  BY PaidTypes
<1>1. CASE StillStep
  <2>1. /\ UNCHANGED <<run, batch>> /\ faults' \in {faults, faults + 1}
        /\ \A a \in Actions : row'[a].attempts = row[a].attempts
    BY <1>1 DEF StillStep
  <2>2. CASE faults' = faults + 1
    BY <2>1, <2>2, FaultPaid DEF Cleaning
  <2>3. CASE faults' # faults + 1
    BY <1>1, <2>1, <2>3, RestPaid DEF StillStep
  <2> QED BY <2>2, <2>3
<1>2. CASE Reclaim
  <2>1. /\ UNCHANGED <<run, batch, faults>> /\ \A a \in Actions : ~Cleaning(a)
    BY <1>2 DEF Reclaim, DrainInv, Cleaning
  <2>2. \A a \in Actions : /\ row'[a].attempts = row[a].attempts
                           /\ \/ row'[a] = row[a]
                              \/ row[a].status = "IN_PROGRESS" /\ row[a].ripe
                                   /\ row'[a].status = "QUEUED"
    BY <1>2, <1>t DEF Reclaim, Stale, RowType
  <2> QED BY <2>1, <2>2, RestPaid
<1>3. CASE WakeSnoozed
  BY <1>3, RestPaid DEF WakeSnoozed
<1>4. CASE FindDue
  <2>1. PICK B \in SUBSET Due : batch' = {[act |-> a, no |-> row[a].attempts + 1] : a \in B}
    BY <1>4 DEF FindDue
  <2>2. UNCHANGED <<run, row, faults>>
    BY <1>4 DEF FindDue
  <2>3. \A a : Lim(a)' = Lim(a) /\ (Cleaning(a)' <=> Cleaning(a))
    BY <2>2 DEF Lim, Cleaning
  <2>4. ASSUME NEW b \in batch' PROVE b.no <= Lim(b.act)'
    <3>1. PICK a \in Due : b.act = a /\ b.no = row[a].attempts + 1
      BY <2>1
    <3>2. a \in Actions /\ row[a].attempts < Lim(a) /\ row[a].attempts \in Nat /\ Lim(a) \in Nat
      BY <1>t, LimType DEF Due, Paid, RowPaid, RowType
    <3> QED BY <2>3, <3>1, <3>2
  <2>5. \A a \in Actions : RowPaid(a)'
    BY <2>2, <2>3 DEF Paid, RowPaid, Holds
  <2>6. \A r \in Runners : RunPaid(r)'
    BY <2>2, <2>3 DEF Paid, RunPaid
  <2> QED BY <2>4, <2>5, <2>6 DEF Paid
<1>5. CASE NextRow
  <2>1. PICK b \in batch : Start(Drainer, "ready", b.act, b.no) /\ batch' = batch \ {b}
    BY <1>5 DEF NextRow
  <2>2. /\ run'[Drainer].pc = "ready" /\ run'[Drainer].act = b.act /\ run'[Drainer].no = b.no
        /\ \A q \in Runners \ {Drainer} : run'[q] = run[q]
        /\ UNCHANGED <<row, faults>> /\ run[Drainer].pc = "idle" /\ b.no <= Lim(b.act)
    BY <1>5, <1>t, <2>1 DEF NextRow, Start, At, Paid
  <2>3. \A a : Lim(a)' = Lim(a) /\ (Cleaning(a)' <=> Cleaning(a))
    BY <2>2 DEF Lim, Cleaning
  <2>4. \A r \in Runners, a \in Actions : Holds(r, a)' <=> Holds(r, a)
    BY <2>2 DEF Holds, InFlightPcs
  <2>5. \A a \in Actions : RowPaid(a)'
    BY <2>2, <2>3, <2>4 DEF Paid, RowPaid
  <2>6. \A r \in Runners : RunPaid(r)'
    BY <2>2, <2>3 DEF Paid, RunPaid
  <2>7. \A c \in batch' : c.no <= Lim(c.act)'
    BY <2>1, <2>3 DEF Paid
  <2> QED BY <2>5, <2>6, <2>7 DEF Paid
<1>6. CASE ResetRow
  <2>e. PICK e \in Actions : e = run[Drainer].act
    BY <1>6, <1>t DEF ResetRow, At
  <2>1. /\ run[Drainer].pc = "infra" /\ Rest(Drainer) /\ UNCHANGED <<batch, faults>>
        /\ row' = [row EXCEPT ![e].status = "QUEUED", ![e].ripe = FALSE]
    BY <1>6, <2>e DEF ResetRow, At
  <2>2. run'[Drainer].pc = "idle" /\ \A q \in Runners \ {Drainer} : run'[q] = run[q]
    BY <1>t, <2>1, Turns DEF Others
  <2>3. /\ row'[e].attempts = row[e].attempts /\ row'[e].status = "QUEUED"
        /\ \A a \in Actions \ {e} : row'[a] = row[a]
    BY <1>t, <2>1 DEF RowType
  <2>4. Lim(e)' > Lim(e) /\ Lim(e) \in Nat /\ Lim(e)' \in Int
    BY <1>t, <2>e, <2>1, <2>2, LimType, LimSteps DEF Cleaning, Lim
  <2>5. RowPaid(e)'
    <3>1. row[e].attempts \in Nat /\ row[e].attempts <= Lim(e)
      BY <1>t DEF Paid, RowPaid, RowType
    <3> QED BY <2>3, <2>4, <3>1 DEF RowPaid
  <2>6. RunPaid(Drainer)' /\ run'[Drainer].pc \notin InFlightPcs \cup {"infra", "ready"}
    BY <2>2 DEF RunPaid, InFlightPcs
  <2> QED BY <1>t, <2>e, <2>1, <2>2, <2>3, <2>4, <2>5, <2>6, PaidFrame
<1>7. CASE CrashTick
  <2>1. Rest(Drainer) /\ batch' = {} /\ faults' = faults + 1 /\ row' = row
    BY <1>7 DEF CrashTick, Fault
  <2>2. run'[Drainer].pc = "idle" /\ \A q \in Runners \ {Drainer} : run'[q] = run[q]
    BY <1>t, <2>1, Turns DEF Others
  <2> QED BY <2>1, <2>2, FaultPaid DEF Cleaning, InFlightPcs
<1>8. ASSUME NEW s \in Slots, NEW a \in Actions, NEW p \in {"approving", "rejecting", "snoozing"},
             ReadPending(s, a, p)
      PROVE  Paid'
  <2>1. /\ run'[s].pc = p /\ run[s].pc = "idle" /\ \A q \in Runners \ {s} : run'[q] = run[q]
        /\ UNCHANGED <<row, batch, faults>>
    BY <1>8, <1>t DEF ReadPending, Start, At
  <2>2. Lim(a)' = Lim(a) /\ Lim(a) \in Nat /\ (Cleaning(a)' <=> Cleaning(a))
    BY <1>t, <2>1, LimType DEF Lim, Cleaning
  <2>3. \A r \in Runners : Holds(r, a)' <=> Holds(r, a)
    BY <2>1 DEF Holds, InFlightPcs
  <2>4. RowPaid(a)'
    BY <2>1, <2>2, <2>3 DEF Paid, RowPaid
  <2>5. RunPaid(s)' /\ run'[s].pc \notin InFlightPcs \cup {"infra", "ready"}
    BY <2>1 DEF RunPaid, InFlightPcs
  <2> QED BY <1>t, <2>1, <2>2, <2>4, <2>5, PaidFrame
<1>9. ASSUME NEW s \in Slots, Approves(s) PROVE Paid'
  <2>e. PICK e \in Actions : e = run[s].act
    BY <1>9, <1>t DEF Approves, CommitApproval, At
  <2>1. /\ run[s].pc = "approving" /\ Goto(s, "approved") /\ UNCHANGED <<batch, faults>>
        /\ row' = [row EXCEPT ![e] = [status |-> "QUEUED", attempts |-> 0, ripe |-> TRUE]]
    BY <1>9, <2>e DEF Approves, CommitApproval, At
  <2>2. /\ run'[s].pc = "approved" /\ run'[s].act = e /\ \A q \in Runners \ {s} : run'[q] = run[q]
    BY <1>t, <2>e, <2>1, Turns DEF Others
  <2>3. Lim(e)' = Lim(e) /\ Lim(e) \in Nat /\ Lim(e) >= MaxAttempts
    BY <1>t, <2>1, <2>2, LimType DEF Lim, Cleaning
  <2>4. RowPaid(e)'
    <3>1. row'[e].attempts = 0 /\ row'[e].status = "QUEUED"
      BY <1>t, <2>1
    <3> QED BY <1>t, <2>3, <3>1 DEF RowPaid
  <2>5. RunPaid(s)' /\ run'[s].pc \notin InFlightPcs \cup {"infra", "ready"}
    BY <2>2 DEF RunPaid, InFlightPcs
  <2> QED BY <1>t, <2>e, <2>1, <2>2, <2>3, <2>4, <2>5, PaidFrame
<1>10. ASSUME NEW s \in Slots, ReadRow(s) PROVE Paid'
  <2>e. PICK e \in Actions : e = run[s].act
    BY <1>10, <1>t DEF ReadRow, At
  <2>1. /\ run[s].pc = "mirrored" /\ run'[s].pc = "ready" /\ run'[s].act = e
        /\ \A q \in Runners \ {s} : run'[q] = run[q]
        /\ UNCHANGED <<row, batch, faults>>
    BY <1>10, <1>t, <2>e DEF ReadRow, Start, At
  <2>2. /\ Lim(e)' = Lim(e) /\ Lim(e) \in Nat /\ (Cleaning(e)' <=> Cleaning(e))
    BY <1>t, <2>1, LimType DEF Lim, Cleaning
  <2>3. \A r \in Runners : Holds(r, e)' <=> Holds(r, e)
    BY <2>1 DEF Holds, InFlightPcs
  <2>4. RowPaid(e)'
    BY <2>1, <2>2, <2>3 DEF Paid, RowPaid
  <2>5. RunPaid(s)'
    BY <1>t, <2>1 DEF RunPaid, InFlightPcs
  <2> QED BY <1>t, <2>e, <2>1, <2>2, <2>4, <2>5, PaidFrame
<1> QED
  BY <1>1, <1>2, <1>3, <1>4, <1>5, <1>6, <1>7, <1>8, <1>9, <1>10, MildPaid, WritePaid DEF Shapes

LEMMA PaidCorrect == Spec => []PaidInv
<1>1. Init => PaidInv
  <2> SUFFICES ASSUME Init PROVE PaidInv
    OBVIOUS
  <2>1. /\ \A r \in Runners : run[r].pc = "idle"
        /\ batch = {} /\ faults = 0 /\ Drainer \in Runners /\ Slots \subseteq Runners
        /\ \A a \in Actions : row[a].attempts = 0 /\ row[a].status = "NONE"
    BY DEF Init, IdleRun, Runners
  <2>2. DrainInv /\ Once /\ Rising
    BY <2>1 DEF DrainInv, Once, Rising, Rises, Approver, Awaiting, AttemptPcs, InFlightPcs
  <2>3. \A a : Lim(a) = MaxAttempts /\ MaxAttempts \in Nat \ {0}
    BY <2>1, OutboxAssumption DEF Lim, Cleaning
  <2>4. Paid
    BY <2>1, <2>3 DEF Paid, RowPaid, RunPaid, InFlightPcs
  <2> QED BY <2>2, <2>4 DEF PaidInv
<1>2. TypeOK /\ TypeOK' /\ IntentInv /\ PaidInv /\ [Next]_vars => PaidInv'
  BY StepShapes, NextDrain, NextOnce, NextRises, NextPaid DEF PaidInv
<1> QED BY <1>1, <1>2, TypeCorrect, IntentCorrect, PTL DEF Spec

\* However the inline attempt, the worker's stale snapshots, its reclaims and
\* its exceptions interleave, the attempts counter passes maxAttempts only by
\* as many as there were faults.
THEOREM AttemptsArePaid == Spec => []AttemptsPaidByFaults
<1>1. TypeOK /\ PaidInv => AttemptsPaidByFaults
  <2> SUFFICES ASSUME TypeOK, PaidInv, NEW a \in Actions
               PROVE  row[a].attempts <= MaxAttempts + faults
    BY DEF AttemptsPaidByFaults
  <2>1. row[a].attempts <= Lim(a) /\ row[a].attempts \in Nat
    BY PaidTypes DEF PaidInv, Paid, RowPaid, RowType
  <2>2. Lim(a) \in Nat /\ Lim(a) <= MaxAttempts + faults
    BY LimType DEF PaidInv
  <2> QED BY <2>1, <2>2, PaidTypes
<1> QED BY <1>1, TypeCorrect, PaidCorrect, PTL
=============================================================================
