---------------------------- MODULE ActionOutbox ----------------------------
(***************************************************************************)
(* The approval queue and the transactional outbox of the API server:      *)
(* agentcore/action-outbox.ts, routes/chat-pending-actions.ts, the expiry  *)
(* sweep of agentcore/autonomous-agent-scheduler.ts and the scheduler tick *)
(* of automation-scheduler.ts that drains the outbox and wakes snoozed     *)
(* queue items.                                                            *)
(*                                                                         *)
(* Every await is a step boundary, except between a mirror write and the   *)
(* feedback signal after it, which no handler reads together: what was     *)
(* read before a step is kept in run, batch or sweep and may be stale when *)
(* it is used.  A database statement is atomic.                            *)
(*                                                                         *)
(* Time is abstract: a row is "ripe" once the clock has passed the only    *)
(* deadline its status has (nextAttemptAt for QUEUED, updatedAt +          *)
(* STALE_IN_PROGRESS_MS for IN_PROGRESS).                                  *)
(***************************************************************************)
EXTENDS Naturals, FiniteSets

CONSTANTS
    Actions,      \* the PendingActions
    NoAction,     \* "no action" in a runner at rest
    Slots,        \* request handlers that can be in flight at once
    Drainer,      \* the scheduler tick that holds the cross-worker lock
    MaxAttempts,  \* ActionOutbox.maxAttempts
    DrainBatch,   \* DRAIN_BATCH: rows one tick takes
    Faults,       \* the kinds of fault a behaviour may contain
    MaxFaults     \* bound: faults in one behaviour

FaultKinds == {"crash",     \* a handler or tick dies where it stands
               "write",     \* a database statement fails
               "lostack",   \* a statement commits but its caller sees an error
               "slow",      \* an attempt outlives STALE_IN_PROGRESS_MS
               "ambiguous"} \* a tool reports an error after taking effect

Runners == Slots \cup {Drainer}

ASSUME OutboxAssumption ==
    /\ NoAction \notin Actions
    /\ IsFiniteSet(Slots)
    /\ Drainer \notin Slots
    /\ MaxAttempts \in Nat \ {0}
    /\ DrainBatch \in Nat \ {0}
    /\ Faults \subseteq FaultKinds
    /\ MaxFaults \in Nat

VARIABLES
    pa,       \* PendingAction.status
    attn,     \* AttentionItem.status of the mirrored queue entry
    feedback, \* FeedbackEvent signals recorded for the action
    row,      \* the ActionOutbox row: status, attempts, ripe
    run,      \* each runner: where it stands, its action, its attemptNo
    tick,     \* where the drain stands in its tick
    batch,    \* the rows the drain read and has not reached yet
    sweep,    \* the expiry sweep: where it stands and the rows it read
    executed, \* how often the action's tool has taken effect (ghost)
    faults    \* faults so far (ghost)

queueVars == <<pa, attn, feedback>>
vars == <<pa, attn, feedback, row, run, tick, batch, sweep, executed, faults>>

PaStatus   == {"PENDING", "REJECTED", "EXECUTED", "FAILED"}
AttnStatus == {"ABSENT", "OPEN", "SNOOZED", "RESOLVED", "DISMISSED"}
Signals    == {"APPROVED", "FAILED", "REJECTED", "IGNORED"}
RowStatus  == {"NONE", "QUEUED", "IN_PROGRESS", "COMPLETED", "DEAD"}

RequestPcs == {"approving", "approved", "mirrored", "rejecting", "rejected", "snoozing"}
\* An attempt that holds its claim and has not written its outcome yet.
InFlightPcs == {"running", "ok", "transient", "permanent"}
AttemptPcs == {"ready", "completed", "dead", "failed", "infra"} \cup InFlightPcs

IdleRun   == [pc |-> "idle", act |-> NoAction, no |-> 0]
IdleSweep == [pc |-> "idle", rows |-> {}]

At(r, p) == run[r].pc = p
Start(r, p, a, no) == run' = [run EXCEPT ![r] = [pc |-> p, act |-> a, no |-> no]]
Goto(r, p) == run' = [run EXCEPT ![r].pc = p]
Rest(r) == run' = [run EXCEPT ![r] = IdleRun]

\* Attempts on action a that hold a claim and owe the row an outcome.
InFlight(a) == {r \in Runners : run[r].act = a /\ run[r].pc \in InFlightPcs}

\* The condition of the compare-and-swap that decides a PendingAction, and the
\* same one lost.
StillPendingDropped(a) == TRUE
StillPending(a) == pa[a] = "PENDING"

\* The condition of the compare-and-swap that claims a row, and a claim that
\* also takes rows somebody is running.
ClaimableAnyway(a) == row[a].status \in {"QUEUED", "IN_PROGRESS"}
Claimable(a) == row[a].status = "QUEUED"

\* The rows a reclaim takes, a reclaim without the stale window, and none.
StaleNever(a) == FALSE
StaleAtOnce(a) == row[a].status = "IN_PROGRESS"
Stale(a) == row[a].status = "IN_PROGRESS" /\ row[a].ripe

\* One more fault of kind k, while the behaviour has any left.
Fault(k) == k \in Faults /\ faults < MaxFaults /\ faults' = faults + 1

-----------------------------------------------------------------------------
(***************************************************************************)
(* Every action has been proposed.  Two producers of a PendingAction       *)
(* (routes/receipt.ts, agentcore/skill-recorder.ts) never mirror it, and   *)
(* the third swallows a failed mirror write: its queue entry may be absent.*)
(***************************************************************************)
Init ==
    /\ pa = [a \in Actions |-> "PENDING"]
    /\ attn \in [Actions -> {"ABSENT", "OPEN"}]
    /\ feedback = [a \in Actions |-> {}]
    /\ row = [a \in Actions |-> [status |-> "NONE", attempts |-> 0, ripe |-> FALSE]]
    /\ run = [r \in Runners |-> IdleRun]
    /\ tick = "idle"
    /\ batch = {}
    /\ sweep = IdleSweep
    /\ executed = [a \in Actions |-> 0]
    /\ faults = 0

-----------------------------------------------------------------------------
(* Request handlers.                                                       *)

\* approve, reject and snooze first read the action and answer 400/404
\* unless it is PENDING.
ReadPending(s, a, next) ==
    /\ At(s, "idle")
    /\ pa[a] = "PENDING"
    /\ Start(s, next, a, 0)
    /\ UNCHANGED <<queueVars, row, tick, batch, sweep, executed, faults>>

\* The transaction: compare-and-swap PENDING -> EXECUTED together with
\* enqueueAction, or a 409 when somebody else decided first.
CommitApproval(s) ==
    LET a == run[s].act IN
    /\ At(s, "approving")
    /\ \/ /\ StillPending(a)
          /\ pa' = [pa EXCEPT ![a] = "EXECUTED"]
          /\ row' = [row EXCEPT ![a] = [status |-> "QUEUED", attempts |-> 0, ripe |-> TRUE]]
          /\ Goto(s, "approved")
       \/ /\ ~StillPending(a)
          /\ Rest(s)
          /\ UNCHANGED <<pa, row>>
    /\ UNCHANGED <<attn, feedback, tick, batch, sweep, executed, faults>>

\* upsertAttentionForPendingAction(EXECUTED), which creates a missing entry.
MirrorApproval(s) ==
    /\ At(s, "approved")
    /\ attn' = [attn EXCEPT ![run[s].act] = "RESOLVED"]
    /\ Goto(s, "mirrored")
    /\ UNCHANGED <<pa, feedback, row, tick, batch, sweep, executed, faults>>

\* Re-read the row; whatever its status, the inline attempt tries to claim it.
ReadRow(s) ==
    /\ At(s, "mirrored")
    /\ Start(s, "ready", run[s].act, row[run[s].act].attempts + 1)
    /\ UNCHANGED <<queueVars, row, tick, batch, sweep, executed, faults>>

CommitReject(s) ==
    LET a == run[s].act IN
    /\ At(s, "rejecting")
    /\ \/ /\ StillPending(a)
          /\ pa' = [pa EXCEPT ![a] = "REJECTED"]
          /\ Goto(s, "rejected")
       \/ /\ ~StillPending(a)
          /\ Rest(s)
          /\ UNCHANGED pa
    /\ UNCHANGED <<attn, feedback, row, tick, batch, sweep, executed, faults>>

\* The writes after the rejection; nobody reads between them.
MirrorReject(s) ==
    LET a == run[s].act IN
    /\ At(s, "rejected")
    /\ attn' = [attn EXCEPT ![a] = "DISMISSED"]
    /\ feedback' = [feedback EXCEPT ![a] = @ \cup {"REJECTED"}]
    /\ Rest(s)
    /\ UNCHANGED <<pa, row, tick, batch, sweep, executed, faults>>

\* The snooze's updateMany has no condition on the action or on the entry.
WriteSnooze(s) ==
    LET a == run[s].act IN
    /\ At(s, "snoozing")
    /\ attn' = [attn EXCEPT ![a] = IF @ = "ABSENT" THEN @ ELSE "SNOOZED"]
    /\ Rest(s)
    /\ UNCHANGED <<pa, feedback, row, tick, batch, sweep, executed, faults>>

-----------------------------------------------------------------------------
(* One attempt, by the inline handler or by the drain.                     *)

ClaimedRow(no) == [status |-> "IN_PROGRESS", attempts |-> no, ripe |-> FALSE]

\* claimAndRunOutboxRow: QUEUED -> IN_PROGRESS, attempts from the snapshot.
Claim(r) ==
    LET a == run[r].act IN
    /\ At(r, "ready")
    /\ \/ /\ Claimable(a)
          /\ row' = [row EXCEPT ![a] = ClaimedRow(run[r].no)]
          /\ Goto(r, "running")
       \/ /\ ~Claimable(a)
          /\ Rest(r)
          /\ UNCHANGED row
    /\ UNCHANGED <<queueVars, tick, batch, sweep, executed, faults>>

ToolSucceeds(r) ==
    /\ At(r, "running")
    /\ executed' = [executed EXCEPT ![run[r].act] = @ + 1]
    /\ Goto(r, "ok")
    /\ UNCHANGED <<queueVars, row, tick, batch, sweep, faults>>

\* Not a step of Next: an error the tool swallowed taken for a result, which
\* the inspection of the result prevents.
ToolFailsUnnoticed(r) ==
    /\ At(r, "running")
    /\ Goto(r, "ok")
    /\ UNCHANGED <<queueVars, row, tick, batch, sweep, executed, faults>>

\* The tool reports an error (thrown, or swallowed into {"error": ...}) that
\* isTransientToolError takes for transient or for permanent.
ToolFails(r) ==
    /\ At(r, "running")
    /\ \E class \in {"transient", "permanent"} : Goto(r, class)
    /\ UNCHANGED <<queueVars, row, tick, batch, sweep, executed, faults>>

ToolMisreports(r) ==
    /\ At(r, "running")
    /\ executed' = [executed EXCEPT ![run[r].act] = @ + 1]
    /\ \E class \in {"transient", "permanent"} : Goto(r, class)
    /\ Fault("ambiguous")
    /\ UNCHANGED <<queueVars, row, tick, batch, sweep>>

\* The row goes back to the wrong enum's initial status.
FailedRowPending(class, no) == [status |-> "PENDING", attempts |-> no, ripe |-> FALSE]

\* A retry without the maxAttempts check.
FailedRowUncapped(class, no) ==
    [status |-> IF class = "transient" THEN "QUEUED" ELSE "DEAD",
     attempts |-> no, ripe |-> FALSE]

\* The row after attempt no ended without success: canRetry, or DEAD.
FailedRow(class, no) ==
    [status |-> IF class = "transient" /\ no < MaxAttempts THEN "QUEUED" ELSE "DEAD",
     attempts |-> no, ripe |-> FALSE]

CompletedRow(no) == [status |-> "COMPLETED", attempts |-> no, ripe |-> FALSE]

\* The outcome is written by id, whatever the row has become meanwhile.
WriteCompleted(r) ==
    /\ At(r, "ok")
    /\ row' = [row EXCEPT ![run[r].act] = CompletedRow(run[r].no)]
    /\ Goto(r, "completed")
    /\ UNCHANGED <<queueVars, tick, batch, sweep, executed, faults>>

WriteFailure(r) ==
    LET a == run[r].act
        after == FailedRow(run[r].pc, run[r].no)
    IN
    /\ run[r].pc \in {"transient", "permanent"}
    /\ row' = [row EXCEPT ![a] = after]
    /\ \/ after.status = "QUEUED" /\ Rest(r)
       \/ after.status = "DEAD" /\ Goto(r, "dead")
    /\ UNCHANGED <<queueVars, tick, batch, sweep, executed, faults>>

\* onOutboxCompleted.
OnCompleted(r) ==
    /\ At(r, "completed")
    /\ feedback' = [feedback EXCEPT ![run[r].act] = @ \cup {"APPROVED"}]
    /\ Rest(r)
    /\ UNCHANGED <<pa, attn, row, tick, batch, sweep, executed, faults>>

\* onOutboxDead: the PendingAction first, then its mirror and the feedback.
OnDead(r) ==
    /\ At(r, "dead")
    /\ pa' = [pa EXCEPT ![run[r].act] = "FAILED"]
    /\ Goto(r, "failed")
    /\ UNCHANGED <<attn, feedback, row, tick, batch, sweep, executed, faults>>

MirrorFailure(r) ==
    LET a == run[r].act IN
    /\ At(r, "failed")
    /\ attn' = [attn EXCEPT ![a] = "RESOLVED"]
    /\ feedback' = [feedback EXCEPT ![a] = @ \cup {"FAILED"}]
    /\ Rest(r)
    /\ UNCHANGED <<pa, row, tick, batch, sweep, executed, faults>>

-----------------------------------------------------------------------------
(* The scheduler tick: drainActionOutbox, then resurrectSnoozedItems.      *)

\* Rows IN_PROGRESS past the stale window go back to QUEUED, due at once.
Reclaim ==
    /\ tick = "idle"
    /\ row' = [a \in Actions |->
                 IF Stale(a) THEN [row[a] EXCEPT !.status = "QUEUED", !.ripe = TRUE]
                             ELSE row[a]]
    /\ tick' = "reclaimed"
    /\ UNCHANGED <<queueVars, run, batch, sweep, executed, faults>>

Due == {a \in Actions : row[a].status = "QUEUED" /\ row[a].ripe}

\* The snapshot of at most DrainBatch due rows the tick will work through.
FindDue ==
    /\ tick = "reclaimed"
    /\ \E B \in SUBSET Due :
         /\ Cardinality(B) <= DrainBatch
         /\ B = Due \/ Cardinality(B) = DrainBatch
         /\ batch' = {[act |-> a, no |-> row[a].attempts + 1] : a \in B}
    /\ tick' = "draining"
    /\ UNCHANGED <<queueVars, row, run, sweep, executed, faults>>

NextRow ==
    /\ tick = "draining"
    /\ At(Drainer, "idle")
    /\ \E b \in batch :
         /\ Start(Drainer, "ready", b.act, b.no)
         /\ batch' = batch \ {b}
    /\ UNCHANGED <<queueVars, row, tick, sweep, executed, faults>>

\* The end of the tick wakes the entries whose snoozedUntil has passed.
WakeSnoozed ==
    /\ tick = "draining"
    /\ At(Drainer, "idle")
    /\ batch = {}
    /\ \E W \in SUBSET {a \in Actions : attn[a] = "SNOOZED"} :
         attn' = [a \in Actions |-> IF a \in W THEN "OPEN" ELSE attn[a]]
    /\ tick' = "idle"
    /\ UNCHANGED <<pa, feedback, row, run, batch, sweep, executed, faults>>

\* The catch of the drain loop: back to QUEUED by id, with backoff.
ResetRow ==
    /\ At(Drainer, "infra")
    /\ row' = [row EXCEPT ![run[Drainer].act].status = "QUEUED",
                          ![run[Drainer].act].ripe = FALSE]
    /\ Rest(Drainer)
    /\ UNCHANGED <<queueVars, tick, batch, sweep, executed, faults>>

-----------------------------------------------------------------------------
(* expireStalePendingActions.                                              *)

\* The rows older than the TTL: the clock decides which PENDING ones are.
ExpiryReads ==
    /\ sweep.pc = "idle"
    /\ \E O \in (SUBSET {a \in Actions : pa[a] = "PENDING"}) \ {{}} :
         sweep' = [pc |-> "read", rows |-> O]
    /\ UNCHANGED <<queueVars, row, run, tick, batch, executed, faults>>

ExpiryClaims ==
    LET expired == {a \in sweep.rows : pa[a] = "PENDING"} IN
    /\ sweep.pc = "read"
    /\ pa' = [a \in Actions |-> IF a \in expired THEN "REJECTED" ELSE pa[a]]
    /\ sweep' = IF expired = {} THEN IdleSweep ELSE [sweep EXCEPT !.pc = "claimed"]
    /\ UNCHANGED <<attn, feedback, row, run, tick, batch, executed, faults>>

\* The mirror and the IGNORED signal go to every row that was read.
ExpiryMirrors ==
    /\ sweep.pc = "claimed"
    /\ attn' = [a \in Actions |-> IF a \in sweep.rows /\ attn[a] # "ABSENT"
                                    THEN "DISMISSED" ELSE attn[a]]
    /\ feedback' = [a \in Actions |-> IF a \in sweep.rows
                                        THEN feedback[a] \cup {"IGNORED"} ELSE feedback[a]]
    /\ sweep' = IdleSweep
    /\ UNCHANGED <<pa, row, run, tick, batch, executed, faults>>

-----------------------------------------------------------------------------
(* The clock.                                                              *)

\* A backoff ends, or an abandoned claim reaches the stale window.
ClockPasses(a) ==
    /\ ~row[a].ripe
    /\ \/ row[a].status = "QUEUED"
       \/ row[a].status = "IN_PROGRESS" /\ InFlight(a) = {}
    /\ row' = [row EXCEPT ![a].ripe = TRUE]
    /\ UNCHANGED <<queueVars, run, tick, batch, sweep, executed, faults>>

\* An attempt is still running when its claim reaches the stale window.
SlowAttempt(a) ==
    /\ ~row[a].ripe
    /\ row[a].status = "IN_PROGRESS"
    /\ InFlight(a) # {}
    /\ row' = [row EXCEPT ![a].ripe = TRUE]
    /\ Fault("slow")
    /\ UNCHANGED <<queueVars, run, tick, batch, sweep, executed>>

-----------------------------------------------------------------------------
(* Faults.                                                                 *)

\* The process that hosts a handler dies, or the handler throws out of its
\* route before its claim.  Its local state is gone; the database is not.
CrashSlot(s) ==
    /\ ~At(s, "idle")
    /\ Rest(s)
    /\ Fault("crash")
    /\ UNCHANGED <<queueVars, row, tick, batch, sweep, executed>>

CrashTick ==
    /\ tick # "idle"
    /\ Rest(Drainer)
    /\ tick' = "idle"
    /\ batch' = {}
    /\ Fault("crash")
    /\ UNCHANGED <<queueVars, row, sweep, executed>>

CrashSweep ==
    /\ sweep.pc # "idle"
    /\ sweep' = IdleSweep
    /\ Fault("crash")
    /\ UNCHANGED <<queueVars, row, run, tick, batch, executed>>

\* An exception out of claimAndRunOutboxRow: the drain's catch takes over,
\* the inline handler answers 500 and leaves the row as it is.
Escape(r) == IF r = Drainer THEN Goto(r, "infra") ELSE Rest(r)

\* A failed statement leaves the row alone; one whose acknowledgement is
\* lost has written `after`.
FailingWrite(a, after) ==
    \/ Fault("write") /\ UNCHANGED row
    \/ Fault("lostack") /\ row' = [row EXCEPT ![a] = after]

ClaimFails(r) ==
    LET a == run[r].act IN
    /\ At(r, "ready")
    /\ FailingWrite(a, IF Claimable(a) THEN ClaimedRow(run[r].no) ELSE row[a])
    /\ Escape(r)
    /\ UNCHANGED <<queueVars, tick, batch, sweep, executed>>

\* The COMPLETED write stands inside the try: its failure is classified like
\* a tool error.
CompletedWriteFails(r) ==
    /\ At(r, "ok")
    /\ FailingWrite(run[r].act, CompletedRow(run[r].no))
    /\ \E class \in {"transient", "permanent"} : Goto(r, class)
    /\ UNCHANGED <<queueVars, tick, batch, sweep, executed>>

FailureWriteFails(r) ==
    /\ run[r].pc \in {"transient", "permanent"}
    /\ FailingWrite(run[r].act, FailedRow(run[r].pc, run[r].no))
    /\ Escape(r)
    /\ UNCHANGED <<queueVars, tick, batch, sweep, executed>>

ResetFails ==
    /\ At(Drainer, "infra")
    /\ Rest(Drainer)
    /\ Fault("write")
    /\ UNCHANGED <<queueVars, row, tick, batch, sweep, executed>>

\* The mirror swallows its failed write and the approval goes on.
MirrorApprovalFails(s) ==
    /\ At(s, "approved")
    /\ Goto(s, "mirrored")
    /\ Fault("write")
    /\ UNCHANGED <<queueVars, row, tick, batch, sweep, executed>>

\* onOutboxCompleted and onOutboxDead log a failed write and give up.
SideEffectsFail(r) ==
    /\ run[r].pc \in {"completed", "dead", "failed"}
    /\ Rest(r)
    /\ Fault("write")
    /\ UNCHANGED <<queueVars, row, tick, batch, sweep, executed>>

-----------------------------------------------------------------------------
RequestStep(s) ==
    \/ CommitApproval(s) \/ MirrorApproval(s) \/ ReadRow(s)
    \/ CommitReject(s) \/ MirrorReject(s) \/ WriteSnooze(s)

AttemptStep(r) ==
    \/ Claim(r) \/ ToolSucceeds(r) \/ ToolFails(r)
    \/ WriteCompleted(r) \/ WriteFailure(r)
    \/ OnCompleted(r) \/ OnDead(r) \/ MirrorFailure(r)

TickStep == Reclaim \/ FindDue \/ NextRow \/ WakeSnoozed \/ ResetRow

SweepStep == ExpiryReads \/ ExpiryClaims \/ ExpiryMirrors

FaultStep ==
    \/ \E s \in Slots : CrashSlot(s) \/ MirrorApprovalFails(s)
    \/ CrashTick \/ CrashSweep \/ ResetFails
    \/ \E r \in Runners : \/ ToolMisreports(r) \/ ClaimFails(r) \/ CompletedWriteFails(r)
                          \/ FailureWriteFails(r) \/ SideEffectsFail(r)
    \/ \E a \in Actions : SlowAttempt(a)

Next ==
    \/ \E s \in Slots, a \in Actions, next \in {"approving", "rejecting", "snoozing"} :
         ReadPending(s, a, next)
    \/ \E s \in Slots : RequestStep(s)
    \/ \E r \in Runners : AttemptStep(r)
    \/ TickStep
    \/ SweepStep
    \/ \E a \in Actions : ClockPasses(a)
    \/ FaultStep

Spec == Init /\ [][Next]_vars

(***************************************************************************)
(* The event loop runs every started handler to its end, the scheduler     *)
(* ticks every minute, the clock moves and a tool call returns.  Nothing   *)
(* makes a user decide.                                                    *)
(***************************************************************************)
Fairness ==
    /\ \A s \in Slots : WF_vars(RequestStep(s))
    /\ \A r \in Runners : WF_vars(AttemptStep(r))
    /\ WF_vars(TickStep)
    /\ WF_vars(ExpiryClaims \/ ExpiryMirrors)
    /\ \A a \in Actions : WF_vars(ClockPasses(a))

FairSpec == Spec /\ Fairness

-----------------------------------------------------------------------------
(* Properties.                                                             *)

RowType == [status : RowStatus, attempts : Nat, ripe : BOOLEAN]
RunType == [pc : {"idle"} \cup RequestPcs \cup AttemptPcs,
            act : Actions \cup {NoAction}, no : Nat]

QueueTypeOK ==
    /\ pa \in [Actions -> PaStatus]
    /\ attn \in [Actions -> AttnStatus]
    /\ feedback \in [Actions -> SUBSET Signals]

RowTypeOK == row \in [Actions -> RowType]

RunTypeOK ==
    /\ run \in [Runners -> RunType]
    /\ \A r \in Runners : run[r].pc # "idle" => run[r].act \in Actions

LoopTypeOK ==
    /\ tick \in {"idle", "reclaimed", "draining"}
    /\ batch \in SUBSET [act : Actions, no : Nat]
    /\ sweep \in [pc : {"idle", "read", "claimed"}, rows : SUBSET Actions]

GhostTypeOK == executed \in [Actions -> Nat] /\ faults \in Nat

\* The type invariant.
TypeOK == QueueTypeOK /\ RowTypeOK /\ RunTypeOK /\ LoopTypeOK /\ GhostTypeOK

Approved(a) == pa[a] \in {"EXECUTED", "FAILED"}

\* The human-approve path: however approvals, rejections, the expiry sweep and
\* the worker interleave and whatever fails, a tool has only taken effect for
\* an action that stands approved.
RunsOnlyIfApproved == \A a \in Actions : executed[a] > 0 => Approved(a)

\* "User approved" and "this must run" are one fact: no crash, lost decision
\* race or retry leaves one without the other.
ApprovalHasIntent == \A a \in Actions : Approved(a) <=> row[a].status # "NONE"

\* A decision is never taken back: not by the loser of a race, not by the
\* expiry sweep, not by a late attempt.
DecisionIsFinal ==
    [][\A a \in Actions : /\ Approved(a) => Approved(a)'
                          /\ pa[a] = "REJECTED" => pa'[a] = "REJECTED"]_vars

\* At-least-once, with a price: every effect of an action after the first is
\* accounted for by one fault (a crash, a failed write, a slow attempt, ...).
\* The inline attempt and the worker alone never repeat a tool call.
EffectsPaidByFaults == \A a \in Actions : executed[a] <= 1 + faults

\* The attempts counter passes maxAttempts only by as many as there were faults.
AttemptsPaidByFaults == \A a \in Actions : row[a].attempts <= MaxAttempts + faults

Busy(a) == \E r \in Runners : run[r].act = a

\* Without faults the stored outcome tells what happened: a settled action
\* took effect exactly when its row says COMPLETED, and once its attempt is
\* over the PendingAction and the one feedback signal say the same.
OutcomeIsTrue ==
    faults = 0 =>
      \A a \in Actions :
        /\ row[a].status = "COMPLETED" =>
             /\ executed[a] = 1
             /\ Busy(a) \/ (pa[a] = "EXECUTED" /\ feedback[a] \ {"IGNORED"} = {"APPROVED"})
        /\ row[a].status = "DEAD" =>
             /\ executed[a] = 0
             /\ Busy(a) \/ (pa[a] = "FAILED" /\ feedback[a] \ {"IGNORED"} = {"FAILED"})

\* No two attempts of one action run at the same time, in the inline handler
\* and in the worker.
OneAttemptAtATime == \A a \in Actions : Cardinality(InFlight(a)) <= 1

\* An action's feedback never holds two of the verdicts APPROVED, FAILED and
\* REJECTED.
OneVerdict ==
    \A a \in Actions : Cardinality(feedback[a] \ {"IGNORED"}) <= 1

\* "A tool that hard-crashes the process can't loop forever": the attempts
\* counter stays within maxAttempts.
AttemptsWithinMax == \A a \in Actions : row[a].attempts <= MaxAttempts

\* "EXECUTED + FAILED both close the loop": once everybody is done with an
\* approved action, its queue entry is neither open nor about to come back.
DecidedLeavesQueue ==
    \A a \in Actions : (Approved(a) /\ ~Busy(a) /\ sweep.pc = "idle")
                        => attn[a] \notin {"OPEN", "SNOOZED"}

\* IGNORED says "they just never showed up": an action the user decided never
\* carries it.
IgnoredMeansUndecided == \A a \in Actions : "IGNORED" \in feedback[a] => ~Approved(a)
=============================================================================
