# A formal model of the Klorn API server

Klorn is a personal assistant server: it syncs a user's mail, files it into a
queue, proposes actions the user approves or rejects, runs approved actions
through an outbox, and, where the user allows it, answers mail unattended. The
program's core logic is in `src/packages/api/src` (Node, Prisma over Postgres,
several in-process schedulers); the web, desktop and mobile applications are
clients of it. Paths below are relative to `src/packages/api/src`.

This directory models four parts: the two that act in the user's name, which are the
approval queue with its outbox and the unattended replies; the spending gates in
front of every language-model call; and the erasure of an account, which is the fence
around its data and the purge of its stored files, composed. Each part has a
specification, TLC runs, and proof modules checked by TLAPS.

## The system's parts

| Part | State | Operations | Interacts with | Hard behaviour | What makes it correct |
|---|---|---|---|---|---|
| Approval queue (`routes/chat-pending-actions.ts`, `judge/attention-mirror.ts`, expiry in `agentcore/autonomous-agent-scheduler.ts`) | `PendingAction.status`, the mirrored `AttentionItem`, `FeedbackEvent` signals | approve, reject, snooze, expire, wake snoozed entries | commits the outbox row with the approval; feeds learning | racing decisions; reads before an `await` used after it | one decision, never taken back; an approval and its intent are one fact; a decided entry leaves the queue |
| Action outbox (`agentcore/action-outbox.ts`) | `ActionOutbox` rows: status, attempts, `nextAttemptAt`, `updatedAt` | enqueue, claim, run the tool, write the outcome, reclaim, drain | the inline attempt of approve; the scheduler tick; tools | crash between effect and record; stale reclaim; failed and unacknowledged writes | nothing runs unapproved; every approved action settles; a repeated effect has a cause |
| Scheduler (`automation-scheduler.ts`, `scheduler-heartbeat.ts`) | `schedulerInFlight`, the advisory lock, time stamps | one tick a minute: drain, wake, user cycles, upkeep | everything below | a cycle that times out keeps running; a session lock on pooled connections | one tick at a time; a tick that keeps coming |
| Unattended replies (`agentcore/auto-mode-*.ts`, `agentcore/unattended-reply-guards.ts`, `agentcore/auto-reply-send.ts`, rules in `automation-scheduler.ts`) | claim rows (`Notification` with a unique key), draft counters in memory | rule reply, auto-mode reply, record, resolve; the user deletes, closes, clears | mail sync, judge, provider | two send paths, overlapping cycles, unknown delivery | at most one reply per mail; a true record; the daily cap |
| Data wipe and deletion (`privacy/`, `user-deletion.ts`, `purge-user-data.ts`, `work-context.ts`) | `DataWipe` record, the fence snapshot, the data | record and revoke, purge, sweep, fence a write | every writer | late writers, stale snapshot, crash between record and purge | nothing from before a wipe outlives it; nothing after it is lost |
| Object storage purge (`storage/`, `drive/klorn-upload.ts`) | `StoragePurge` record, objects | mark, pass, settle, upload | deletion, drive | an upload landing after the pass; a deletion restarting | no object outlives its account |
| LLM cost guard (`billing/cost-guard.ts`) | day ledgers, the fractional carry | check, record | every LLM call | check then act; two budgets | overspend bounded by the calls in flight |
| Mail sync (`mail/`) | messages, cursors, tombstones | sync, reconcile, backfill | judge, replies | push and poll at once, cursor resets | no mail lost or filed twice |
| Attention judge and tiers (`judge/`) | queue items, overrides, ages | classify, override, undo, age | sync, notifications | an override racing the judge | a user's override wins |
| Notifications (`notify/`) | delivery logs, escalations | push, ring, call | judge | a delivery racing an acknowledgement | no ring after an answer |
| Authentication (`auth.ts`, `one-time-token.ts`, `auth/`) | devices, tokens, hand-off codes | mint, redeem, revoke | clients | two redemptions at once | single use |
| LLM access (`llm/`), calendar and briefing (`pim/`), drive (`drive/`), learning (`learning/`), MCP (`mcp/`), routes, clients | caches, copies of provider data, text | provider calls and CRUD | all of the above | mostly I/O | outside the models |

## The modules

| Module | What it is |
|---|---|
| `ActionOutbox` | The approval queue and the outbox: two kinds of request handlers, the drain of the scheduler tick, the expiry sweep, the clock and the faults |
| `ActionPromise` | What the approval queue promises for each action, with no handlers, rows or retries |
| `ActionOutboxProofs` | Theorems about `ActionOutbox` |
| `OutboxPromptProofs` | Theorems about `ActionOutbox` while attempts end in time, with the safety half of the refinement to `ActionPromise` |
| `OutboxAttemptProofs` | The theorem about its attempts counter |
| `MCActionOutbox`, `MCActionOutboxPrompt` | Instances for TLC; the second holds the refinement mapping to `ActionPromise` |
| `AutoReply` | The unattended replies of one user: both send paths, the claim row they share, overlapping user cycles |
| `ReplyPromise` | What the unattended replies promise for each mail, with no cycles, paths, drafts or faults |
| `AutoReplyProofs` | Theorems about `AutoReply`, which implements `ReplyPromise` |
| `MCAutoReply` | Instance for TLC |
| `CostGuard` | The user's daily cap and the service's daily ceiling, around concurrent calls |
| `CostGuardProofs`, `MCCostGuard` | Theorems about it, and its instance for TLC |
| `CarryProofs` | The theorem about its fractional carry |
| `Account` | What the next two modules share: the clock, processes, works, erasing calls |
| `DataWipe` | The fence: record, trigger, query hook with its snapshot, finisher, sweep, deletion of the account |
| `StoragePurge` | Stored files: uploads, passes over the bucket, the purge record with its grace, its sweep |
| `Erasure` | The two composed: an upload writes its row through the fence, and a wipe or a deletion purges the objects before the rows |
| `DataWipeProofs` | Theorem about the fence by itself |
| `ErasureProofs` | Theorems about `Erasure`, which implements the fence's specification |
| `MCErasure` | Instance for TLC |

Some operators come in two or three versions side by side, for instance
`Claimable` and `ClaimableAnyway`. The specification uses the last one; the
others are the mistakes a maintainer could make there, and each breaks a
property of its run (`mutants` in `PROJECT.json`).

### ActionOutbox

A *runner* is a request handler in flight (`Slots`) or the scheduler tick
(`Drainer`). `run[r]` says where it stands, on which action, and with which
attempt number it read earlier; `batch` and `sweep` hold what the drain and the
expiry sweep read. So every value the code keeps across an `await` is part of the
state and may be stale when it is used. A database statement, or a transaction,
is one step.

| Code | Actions |
|---|---|
| approve: read, transaction (compare-and-swap and `enqueueAction`), mirror, re-read of the row | `ReadPending`, `CommitApproval`, `MirrorApproval`, `ReadRow` |
| reject, snooze | `CommitReject`, `MirrorReject`, `WriteSnooze` |
| `claimAndRunOutboxRow`: claim, tool, classification, outcome | `Claim`, `ToolSucceeds`, `ToolFails`, `ToolMisreports`, `WriteCompleted`, `WriteFailure` |
| `onOutboxCompleted`, `onOutboxDead` | `OnCompleted`, `OnDead`, `MirrorFailure` |
| `drainActionOutbox`, its catch; `resurrectSnoozedItems` | `Reclaim`, `FindDue`, `NextRow`, `ResetRow`, `WakeSnoozed` |
| `expireStalePendingActions` | `ExpiryReads`, `ExpiryClaims`, `ExpiryMirrors` |
| backoff and stale window | `ClockPasses`, `SlowAttempt` |
| crash, failed write, write whose acknowledgement is lost | `CrashSlot`, `CrashTick`, `CrashSweep`, `ClaimFails`, `CompletedWriteFails`, `FailureWriteFails`, `ResetFails`, `MirrorApprovalFails`, `SideEffectsFail` |

Abstractions. Time is one bit per row, `ripe`: the only deadline its status has
(`nextAttemptAt` when QUEUED, `updatedAt` plus five minutes when IN_PROGRESS) has
passed. Which due rows the `take` of a tick returns is open. A tool call either
takes effect or does not, and reports a success, an error that
`isTransientToolError` takes for transient, or one it takes for permanent; what
the error says is left out. A mirror write and the feedback signal after it are
one step, because no handler reads both. `executed` and `faults` are ghosts:
they count tool effects and faults and guard no action except the bound
`MaxFaults`. An action starts proposed; how the agent proposes it is not
modelled.

### AutoReply

`cycle[c]` is one run of `runUserCycle`: the rule loop over the mail it just
synced, then the auto-mode sweep over the open queue items. `withTimeout` stops
waiting for a cycle and does not stop it, so several can be in flight
(`Cycles`).

| Code | Actions |
|---|---|
| `syncEmails` and the rule loop's read-back; webhook and manual sync | `StartCycle`, `FindNew`, `SyncElsewhere` |
| the judge's queue item | `JudgeItem` |
| the loops, `findAutoModeCandidates` | `NextMail`, `FindCandidates`, `EndCycle` |
| single-recipient check, `unattendedReplyBlock`, draft attempts | `Guard` |
| the draft | `Draft`, `DraftFails` |
| `emailStillExists`, `claimAutoReplyLedger` and auto mode's ledger row | `Recheck`, `Claim`, `ClaimFails` |
| `sendAutoReplyViaFloor`, `deliveryUnknown` | `Send` |
| the record, the item | `SettleRule`, `SettleMode`, `SettleFails` |
| the user, midnight UTC, the process | `DeleteMail`, `CloseItem`, `ClearNotifications`, `Midnight`, `Crash` |

Abstractions. A mail is a number, in order of arrival. Whether a rule matches it
(`RuleMails`), the judge makes it eligible (`ModeMails`), a guard blocks it
(`Guarded`) or its mailbox may not send (`Unsendable`) is fixed for a run, and queue
items rank by their mail. `findAutoModeCandidates` reads the newest `ScanMax` open
items, drops those that cannot be sent, and takes the newest `Take` of the rest. `sends` and `left` are ghosts: what was handed to
the provider, and what really left it; an error may hide a delivery. The
six-hour lookback is the set `Mails`. Which inbox a mail is sent from, UIDVALIDITY and
the notice about the cap are left out.

### CostGuard

`call[c]` is one call of a model through `llm/openai.ts`, from the gates to its
settlement. Every ledger read and write is an `await`, so any number of calls stand
between any two of its steps; `call[c]` keeps what the call read (the carry, the day)
and what it was charged.

| Code | Actions |
|---|---|
| `enforceCostGates`: a call enters, the ceiling's read, the user's read | `Begin`, `checkGlobalCostGate`, `checkCostGate`, `GateReadFails` |
| `recordCostUsage`: the carry is read, the upsert lands, its answer arrives | `ReadCarry`, `Charge`, `ChargeFails`, `Settle` |
| `recordGlobalCostUsage` | `ChargeCeiling`, `ChargeCeilingFails` |
| the call, `trueUpCostLedgers` | `RunUnsettled`, `RunOnServerKey` |
| midnight UTC, the process | `NextDay`, `Restart` |

A charge runs twice through the same actions: `phase = "pre"` is the estimate,
`phase = "true"` the difference after the call. Abstractions. Money is counted in
units, `Per` of them to a cent; the code's unit is a micro-cent. A failed plan lookup
answers the full cap (`CapsOf`). `charged` and `slips` are ghosts: what the user's
ledger was asked to take, and how often a carry was lost or counted twice. The
slices in `call[c]` are ghosts too: where in its ledger a charge came to lie.

Limits. A cap of 0 switches a gate off and is not modelled: caps are positive. The
carry lives in one process; several processes would each keep their own. An increment
that lands after its process has died is not modelled. Calls of the playground skip
every gate in the code and are not calls here. One behaviour is in the model and no
property rules it out, because the code promises nothing about it: a refused call
keeps its pre-bill, so a burst of ordinary calls that all cross the line can fill the
ledger into the slice that is kept for the judge. And a call goes on when its charge
to the user failed or was not acknowledged: it has no slice of the user's day, and
`AdmittedWithinCap` and `DayWithinBudget` do not count it there.

### Account, DataWipe, StoragePurge, Erasure

The clock is the database's; a process's clock is `Offset[p]` ahead of it. A *work*
is a unit of work with a start (`work-context.ts`) that writes one row; an upload is a
work that also stores an object. An *eraser* is a DELETE request or a run of the
data-wipe sweep.

| Code | Actions of `DataWipe` |
|---|---|
| the snapshot's refresh: its query, its assignment | `LoadReads`, `LoadLands` |
| the query hook; the trigger `klorn_data_wipe_check` with the insert | `WorkBegins`, `HookAllows`, `HookRejects`, `Inserts`, `TriggerRejects` |
| `recordWipeAndRevoke`, `rememberDataWipe` | `recordWipeAndRevoke`, `RemembersPending`, `RemembersPurged` |
| `runDataWipeSweep`, `finishDataWipe`, `purgeAllUserData` | `SweepPicks`, `ReadsRecord`, `ObjectsStart`, `ObjectsDone`, `Purges`, `NotPending`, `FinishFails` |
| `deleteUserAndAllData` | `AsksDeletion`, `ObjectsStart`, `ObjectsDone`, `AccountGoes` |
| restart of a process | `WipeRestart` |

| Code | Actions of `StoragePurge` |
|---|---|
| an upload: accepted, PUT, checked, its row, checked | `UploadBegins`, `UploadPuts`, `UploadLands`, `UploadFails`, `PutEnds`, `UploadRechecks`, `RowWritten`, `RowRefused`, `UploadConfirms`, `UploadWithdraws` |
| `discardKlornUpload` | `discardKlornUpload`, `DiscardFails` |
| `purgeUserObjectsDurably`, the storage sweep | `markPurgePending`, `duePurges`, `SweepStartsPass` |
| a pass and its outcome | `PassDeletes`, `PassFails`, `recordPurgePassSucceeded`, `recordPurgePassFailed`, `PassUnrecorded` |
| restart of a process | `PurgeRestart` |

`Erasure` joins them where the code does. `StartsPass` is `ObjectsStart` together
with `markPurgePending`; `UploadStarts`, `WritesRow` and `Withdraws` are a step of an
upload together with the step of its row; `Restart` stops both halves of a process;
every other step belongs to one half alone. `older` (the uploads that had begun when
the latest purge was asked for) and `doomed` (the account's deletion was asked for)
are ghosts.

Abstractions. One account. The clock waits for what the code does in bounded time:
`Refresh` (the age of a snapshot), `Gap` (from the hook's check to its insert, from a
commit to the line after it), `UploadMax`, `PassMax`. The refresh timer does not
fire twice in one instant (`LoadReads`).

Limits. A refresh that keeps failing, or a suspended process, breaks the bound
`Refresh`; the code does not await the refresh. Nested creates and raw inserts pass
by the hook and are caught by the trigger alone, inside its window; they are not
works here. The trigger's `now()` is its transaction's start, which `Gap` covers. The
storage record's times come from one clock. `purgeUserObjectsDurably` takes the
request's time before the upsert and the pass's after it; they are one instant here,
and the slack between `UploadMax` and `Grace` stands for the difference. A PUT that
failed, or whose process stopped, may still land (`adrift`), within `UploadMax`. One
storage sweep runs at a time. Object storage is switched on: with
`OBJECT_STORAGE_ENABLED` off a deletion records no purge and leaves the objects behind,
as `storage/runtime.ts:92-105` warns at startup.

## What TLC checks

| Run | Instance | What it shows |
|---|---|---|
| `outbox_faults` | 1 action, 2 handlers, 1 drain, at most 2 attempts, any 3 faults of 5 kinds | Types; nothing runs unapproved; an approval and its row are one fact; each repeated effect and each attempt past the maximum costs a fault; without faults the stored outcome is what happened; decisions are final |
| `outbox_prompt` | 2 actions, 1 handler, batch of 1, one crash or misreported tool error, fairness | One attempt at a time; one verdict; the outbox implements `ActionPromise`, the settling of every approved action included |
| `outbox_crash_loop` | 1 action, 2 crashes | **Violation**: attempts pass `maxAttempts` |
| `outbox_slow_attempt` | 1 action, one slow attempt | **Violation**: the row is executed twice at once |
| `outbox_ignored` | 2 actions, no fault | **Violation**: a decided action is recorded as ignored |
| `outbox_snoozed` | 1 action, 2 handlers, no fault | **Violation**: a decided action is back in the queue |
| `reply_faults` | 2 mails, 2 cycles, cap 1, any 2 faults of 3 kinds | Types; at most one reply; a true record; a resolved item was answered; an unsettled claim is not listed; every step is one that `ReplyPromise` allows, so nothing is sent for a settled claim and no settled record is rewritten |
| `reply_cap` | 3 mails matched by rules, 2 cycles, cap 1 | The cap is passed by at most the other cycle in flight |
| `reply_fair` | 3 mails, the newest of an unsendable mailbox, a rule for the second, 1 cycle, take 1 of a scan of 2, 1 draft attempt, fairness | An item auto mode can answer is claimed in the end, whatever newer mail cannot be sent, is gone or was claimed before, unless it is out of reach |
| `reply_told` | 1 mail, 1 crash | **Violation**: a reply that never left stays recorded as sent |
| `cost_gates` | 2 calls of one free user or of the system, estimates 1 and 3, costs 1 and 4, caps 2 and 3 cents of 2 units, reserve 1, ceiling 4, 2 days, any 2 faults of 5 kinds | Types; the calls let through lie in separate slices under their line, and add up to no more than the day's budget; no call runs on unrecorded spend; a spent budget stops the next call; ledger and carry are off by less than a cent for each carry lost or counted twice |
| `erasure` | 1 process, 1 work (an upload or not), 1 request, 2 sweeps in another process, clock to 3, 1 fault; `Fence` 2, `Refresh` 1, `Gap` 0, `Offset` 1, `Grace` 2, `Backoff` 2, `UploadMax` 1, `PassMax` 1 | Types; nothing from before a purge survives it; a finished purge leaves no object behind; a deleted account leaves none at all; a file the user was told is stored stays |

### Why the bounds are enough

* *Actions and mails.* Rows of different actions meet only in the drain's batch,
  the expiry's batch and the batch limit: two actions with a batch of one cover
  the competition: an action behind another that settles, not a longer queue. The fault
  run has one action, because every property there is about one action. Mails meet in
  the cap, the take and the scan: three mails against a cap of one, and three against a
  take of one and a scan of two, so that mail really waits behind mail. In `reply_fair`
  the cap of three is never reached and no fault occurs: an item left open by a failed
  send looks like one left by a lost acknowledgement.
* *Runners and cycles.* Two handlers and the drain give three attempts that can
  meet at one row: holder, reclaimer and late finisher. Two cycles give the race
  for one claim. The proofs cover any number of both.
* *Faults.* Each bound leaves room for a fault, its recovery, and a second fault
  that hits the recovery.
* *Attempts.* Two attempts make a retry, and a last attempt that differs from the
  first one. The code's five differ in the number only.
* *Calls.* Two calls are enough for two to pass one check, to cross a line
  together, and to overwrite one carry. The sums are chosen around the lines: the line of
  an ordinary call of a free user is at 1 cent, so one call of 3 units fills it and the second
  crosses it, while the judge's line at 2 cents leaves it room; 3 and 1 together
  meet the ceiling exactly; each estimate leaves half a cent to carry; and a cost of 4
  overruns both. Failed plan lookups are among the faults, so the run compares with
  the full cap (`CapsOf`), and the ceiling of 4 lets two calls of 3 units through on one
  user day only across midnight. The theorems cover the exact caps and every ceiling.
* *The clock of an erasure.* A clock to 3 reaches past the fence (2) and past the
  grace (2), so a purge, the end of its window and a late write all happen, as do a
  pass too early to finish the record and one that may. Requests come at time 0
  (`LastRequest`), any number of them one after the other. So the run does not have a
  refresh that read before a wipe and lands after the process has remembered it
  (`privacy/data-wipe-fence.ts:211`); `FenceHolds` and `NoOldRow` do. One work and one
  fault are little; the proofs cover any number of works, processes, requests, sweeps and
  faults, and any constants the assumptions allow.
* *What grows.* `attempts`, `executed`, `sends` and `drafts` grow without a bound
  in the text; the number of faults and the code's own limits bound them in every
  run.

### Fairness

`ActionOutbox!Fairness`: the event loop runs each started handler and attempt to its
end, ticks keep coming once a minute, an expiry that has read goes on, the clock
moves. Weak fairness is enough for each, since nothing else can disable these
steps for ever. Fairness of the whole attempt includes that a tool call returns;
the code has no timeout around it, and without that assumption
nothing is promised, the tick itself hangs. No fairness makes a user
decide, and none makes a fault happen.

`AutoReply!Fairness`: a cycle's steps go on, and a new cycle starts in the end.
The spending gates and the erasure state no fairness and no liveness. Their runs say
`CHECK_DEADLOCK FALSE`, because calls, works and the clock come to an end.

In `AutoReply!Fairness`, `Draft` is strongly fair: an LLM that is asked again and again gives a text
once. Without it the property is false for a reason outside the code.

## What is proved

All theorems hold for every value of the constants that satisfies the assumptions of
their modules: finite sets of handlers, cycles, mails and calls, positive limits,
any number of faults (`OutboxAssumption`, `ReplyAssumption`, `CostAssumption`), and
for the erasure the relations between its delays that are named below.

**ActionOutboxProofs**

* `TypeCorrect`: the type invariant. It is inductive, with one lemma per action.
* `ApprovalIsIntent`, `NothingRunsUnapproved`: an action stands approved exactly
  when its row exists, and only approved actions take effect. Neither is inductive:
  a write by id could create a row out of nothing. `IntentInv` adds that whatever
  any handler past the approval, the drain or its batch still holds has a row,
  and that no effect exists without one.
* `DecisionsStand`: the action property, from `IntentInv`: only a runner that holds
  a row writes FAILED.
* `EffectsArePaid`: `executed[a] <= 1 + faults`. The inductive `DebtInv` is
  an accounting argument: effects so far, plus the attempts that may still take
  effect or hand the row back (*tokens*), plus one if the row can be claimed, are at
  most `1 + faults`. A claim turns the open row into a token, an effect consumes
  the token, and only a fault can add one.

**AutoReplyProofs**

* `ReplyTypeCorrect`: the type invariant.
* `NoDoubleReply`, `RecordsAreTrue`, `ResolvedWereAnswered`: from one inductive
  invariant, `ClaimInv`. At most one cycle holds a mail's claim; a holder before
  its send has sent nothing, one after it has sent once and its outcome tells what
  is known of the delivery; a mail without a record was never sent; every record
  agrees with what left; and without faults an unsettled record has a holder.
* `ImplementsReplyPromise`: `Spec => Promise!Spec`. `ReplyPromise` lets a mail be
  claimed once, handed to the provider once, after its claim, and settled once; the
  mapping reads its four variables off the record, the two ghosts and the queue item.
  Each step of a cycle, the user, the clock or a fault claims, hands over, settles or
  answers one mail, or is a stutter. Besides `ClaimInv` this needs `HeldInv`: while a
  cycle holds a mail's claim the mail's item is not resolved, and a cycle about to settle
  has handed over exactly one reply, so that its settlement is the first one.
* `UnsettledStaysHidden`: an unsettled claim is not listed. This one is inductive as it
  stands.
* `CapIsKept`: `CapInv` counts the cycles between the cap's check and the claim
  along with today's claims.

**OutboxPromptProofs.** Three of its theorems assume `Punctual`: the faults may be
crashes and tools that misreport, but neither an attempt longer than the stale window
nor a write that fails or loses its acknowledgement. This is the assumption under which
the code's claim "no row is executed twice at once" can hold at all
(`outbox_slow_attempt` shows it fail otherwise).

* `NoAttemptsMeet`, `VerdictIsSingle`: at most one attempt per action is in flight,
  and an action's feedback holds one verdict. The inductive `PromptInv` says that
  while nothing but such faults can have happened (*quiet*), a claim in flight owns its
  row: the row is IN_PROGRESS, not ripe, with the attempt number of its holder; and
  whatever is written of an action agrees with its row.
* `ImplementsPromise`: `Spec => Promise!Spec`, so every step of handlers, worker and
  expiry is a step of `ActionPromise` or a stutter. One lemma per action, from the
  same invariant. The liveness of `ActionPromise` is not part of it.
* `OutcomesAreTrue`: needs no `Punctual`, because `OutcomeIsTrue` speaks of behaviours
  until their first fault. `CalmInv` adds what holds as long as there was no fault:
  an action that is not COMPLETED has taken no effect, unless the attempt that holds its row has
  just succeeded; a COMPLETED one took exactly one; and a settled row is told to the
  user or has a runner that is about to.

**OutboxAttemptProofs.** `AttemptsArePaid`: attempts pass `MaxAttempts` by at most
the number of faults. The attempts counter is not monotone, since a claim and an outcome
write a number that was read before the claim. `PaidInv` bounds every number a
runner or the batch still holds by what the row, and the runners in flight on it,
allow. The proof sorts the steps of the system by shape (a step that leaves a row
alone, a claim, a write of an older number, and so on) and proves the invariant once per
shape.

**CostGuardProofs.** `TypeCorrect`, `AdmissionWithinCap`, `CeilingHolds`,
`SpentStopsCalls`, from the inductive `Gates`: the slices of one ledger's day are
pairwise disjoint and end at or below what the ledger holds now, for the user's ledger
(`Stacked`) and the service's (`GlobalStacked`); a call that was let through has its
slice under its line (`Admissions`); and ledgers only grow, so a budget that
was spent stays spent for the day (`SpentStays`). `BudgetHolds` draws the sum: disjoint
slices under a line add up to no more than the line (`SlicesFit`), so what a day's calls
were pre-billed stays within the cap, the ordinary calls' share within the cap less the
reserve, and the service's day below its ceiling. The sum is the community modules'
`SumFunctionOnSet`; that its recursion has a solution, and that the order of the elements
does not matter, is shown by smallest counterexamples over the subsets (`SumIs`).

**CarryProofs.** `CarryIsBounded`: once nothing of a user's day is in flight, ledger and carry
are off from what was charged by less than a cent for each slip. In between they are off by
more: a charge that has landed and not yet committed its rest shifts the balance by the
carry it read less the rest it will commit. `Balanced` says that the balance is off by the
sum of the shifts of all such charges (`Tally`) and by less than a cent for each slip; a
settlement takes its shift out of the sum, and if the carry it overwrites is not
the one it had read, the slip pays for the difference. A restart drops all charges in
flight at once, one slip for each. The other half of the invariant says that a carry read is less
than a cent (`Fresh`).

**DataWipeProofs.** `FenceHolds`: nothing from before a purge survives it. It assumes
`Fence > Refresh + Gap` and `Offset[p] < Fence - Gap`: by the end of the window in which
the database rejects inserts every process has refreshed its snapshot, and no
process's clock is so far ahead that old work looks new. `FenceInv` says that every snapshot and every
refresh in flight knows enough of the last purge to block work older than it, unless
what it says is older than the purge or its process started after it; and that old work past
the hook got there within `Refresh` of the purge.

**ErasureProofs.** `ImplementsFence` is a refinement: every behaviour of `Erasure` is
one of `WipeSpec`, the fence by itself, and `NoOldRow` carries the fence's promise
over. `TypeCorrect`, `NoOrphans`, `DeletionIsComplete` and `FilesAreKept` come from
the inductive `PurgeInv`: where the objects of each upload may still be, relative to
the latest request, the passes in flight and the uploads' time limit. They assume
`UploadMax < Grace` and `PassMax + Gap < Grace`.

**Only model-checked.** `KeepsPromise` as far as it is liveness, and
`AnswerableIsClaimed`, because liveness is beyond the prover. Every invariant and action
property of a passing run, and the safety half of each refinement, is a theorem.

## Where code and comments disagree

Each is a violation run and a finding in `PROJECT.json`.

1. `agentcore/action-outbox.ts:61` says a reclaim counts toward `maxAttempts`, so
   a tool that crashes its process cannot loop for ever. The claim never
   compares the two; only an attempt that returns does.
2. `agentcore/action-outbox.ts:327` says no row is executed twice by concurrent
   workers. An attempt that outlives the stale window is reclaimed while it runs.
3. `agentcore/autonomous-agent-scheduler.ts:109` records IGNORED for every row the
   expiry read, also one the user approved before the update.
4. `judge/attention-mirror.ts:64` says a decided action's entry is resolved. A snooze
   that read the action before the decision writes SNOOZED over it.
5. `agentcore/auto-mode-sweep.ts:150` says the ledger must not tell of a reply that
   did not go out. A crash between record and send leaves just that.

One limit is not a disagreement. `agentcore/auto-mode-candidates.ts:18-20` says that the
take comes after the exclusion, because newer unsendable or ledger-failed items would
otherwise starve those behind them. So it does, and `AnswerableIsClaimed` shows what
follows (cutting the list first breaks it, `CandidatesCutFirst`). Two kinds of newer
items still keep an older one out until the lookback ends (`OutOfReach`): `ScanMax`
open ones of any kind, since the scan comes before the exclusion, and `Take` that are
guarded or out of draft attempts, since those are not excluded. Without either part of
`OutOfReach`, TLC finds an item that waits for ever.

## What is not modelled, and the plan

Most of the repository is not modelled and is not meant to be: the web, desktop and
mobile clients, their translations, provider adapters, parsing, text generation,
statistics, and handlers that read or write one row. They are I/O, data or
presentation, keep no state over more than one step, and no property here
depends on them.

Inside the four parts these are left out:

* the batch routes, chat streaming, and how an agent proposes an action;
* the jobs of the scheduler tick other than the drain, the snooze wake-up and the
  user cycle;
* which inbox a reply leaves from and the notice about the reply cap;
* a cap of 0, the alert once a day, call counts, prices of models;
* the revoking of grants, the list of purged tables, pagination of a pass, deletion
  of single files, quotas.

Candidates for further modules, each with a protocol of its own:

1. `SchedulerLock`: `schedulerInFlight`, the session lock on a connection pool, and
   several workers. It would discharge the assumption of `ActionOutbox` that one
   tick runs at a time.
2. Override and undo in the judge: a user's override against a judgement in flight.
3. One-time tokens and hand-off codes: two redemptions at once.
4. Escalation: a call or a ring that races an acknowledgement.
