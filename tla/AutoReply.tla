------------------------------ MODULE AutoReply ------------------------------
(***************************************************************************)
(* The unattended replies of one user: the AUTO_REPLY rules and the        *)
(* auto-mode sweep of the user cycle (automation-scheduler.ts,             *)
(* agentcore/auto-mode-sweep.ts, agentcore/auto-mode-candidates.ts,        *)
(* agentcore/unattended-reply-guards.ts) and the claim rows they share.    *)
(*                                                                         *)
(* withTimeout gives up waiting for a user cycle and does not stop it, so  *)
(* several cycles of one user can be in flight; each works through the     *)
(* mail it just synced (rule path), then through the open queue items      *)
(* (auto-mode path), one mail after the other.  A step is what happens up  *)
(* to the next await whose answer a later step may find stale; only the    *)
(* look-ups that open the work on one mail are taken together.             *)
(***************************************************************************)
EXTENDS Naturals, FiniteSets

CONSTANTS
    Mails,      \* the mails of a six-hour lookback, numbered as they arrive
    RuleMails,  \* those an AUTO_REPLY rule matches
    ModeMails,  \* those the judge marks autoEligible, in a human lane
    Guarded,    \* machine or list mail, own address, not one recipient
    NoMail,
    Cycles,     \* user cycles that can be in flight at once
    Cap,        \* MAX_UNATTENDED_REPLIES_PER_DAY
    Unsendable, \* those on a linked inbox unattended replies must not leave from
    Take,       \* AUTO_MODE_MAX_PER_TICK
    ScanMax,    \* AUTO_MODE_CANDIDATE_SCAN_MAX
    MaxDrafts,  \* AUTO_MODE_MAX_DRAFT_ATTEMPTS
    Faults,     \* the kinds of fault a behaviour may contain
    MaxFaults   \* bound: faults in one behaviour

ASSUME ReplyAssumption ==
    /\ Mails \subseteq Nat /\ IsFiniteSet(Mails)
    /\ NoMail \notin Mails
    /\ IsFiniteSet(Cycles)
    /\ Cap \in Nat \ {0} /\ Take \in Nat \ {0} /\ ScanMax \in Nat \ {0}
    /\ MaxDrafts \in Nat \ {0}
    /\ Faults \subseteq {"crash", "write", "lostack"}
    /\ MaxFaults \in Nat

VARIABLES
    mail,    \* EmailMessage: not synced yet, stored, deleted
    item,    \* AttentionItem.status of the mail's queue entry: RESOLVED by auto
             \* mode, CLOSED by somebody else
    ledger,  \* the claim row (Notification "auto-reply:<gmailId>"): its record
    shown,   \* the claim row is a bell entry (type is not "claim")
    today,   \* mails whose claim row was created since UTC midnight
    drafts,  \* autoModeDraftAttempts, in memory
    cycle,   \* each cycle: where it stands, on which mail, and what is left
    sends,   \* how often a reply to the mail was handed to the provider (ghost)
    left,    \* how often a reply to the mail left the provider (ghost)
    faults   \* faults so far (ghost)

ledgerVars == <<ledger, shown, today>>
ghostVars == <<sends, left>>
vars == <<mail, item, ledger, shown, today, drafts, cycle, sends, left, faults>>

Records == {"none", "pending", "sent", "replied", "unconfirmed", "failed"}
WorkPcs == {"guarding", "drafting", "drafted", "claiming", "sending", "settling"}
Outcomes == {"accepted", "unsupported", "error"}

IdleCycle ==
    [pc |-> "idle", path |-> "rule", todo |-> {}, mail |-> NoMail, tries |-> 0, out |-> "error"]

At(c, p) == cycle[c].pc = p
Goto(c, p) == cycle' = [cycle EXCEPT ![c].pc = p]
\* The loop's continue: this mail is done with, whatever became of it.
Leave(c) ==
    cycle' = [cycle EXCEPT ![c] = [IdleCycle EXCEPT !.pc = "next",
                                                    !.path = cycle[c].path, !.todo = cycle[c].todo]]

Fault(k) == k \in Faults /\ faults < MaxFaults /\ faults' = faults + 1

\* unattendedRepliesToday counts every claim; a count of the replies that went
\* out would forget the failed ones and those in flight.
ConfirmedToday == Cardinality({m \in today : ledger[m] \in {"sent", "replied"}})
RepliesToday == Cardinality(today)

\* The unique key lets the first claim win; without it every claim succeeds.
AlwaysUnclaimed(m) == TRUE
\* A variant: a claim whose send failed may be taken again.
UnclaimedOrFailed(m) == ledger[m] \in {"none", "failed"}
Unclaimed(m) == ledger[m] = "none"

\* The n newest mails of S.
Newest(S, n) == {m \in S : Cardinality({x \in S : x > m}) < n}

\* A rule's claim is hidden until the send has settled; auto mode's is a bell
\* entry at once.
ShowsEveryClaim(path) == TRUE
ShowsClaim(path) == path = "mode"

-----------------------------------------------------------------------------
Init ==
    /\ mail = [m \in Mails |-> "coming"]
    /\ item = [m \in Mails |-> "NONE"]
    /\ ledger = [m \in Mails |-> "none"]
    /\ shown = [m \in Mails |-> FALSE]
    /\ today = {}
    /\ drafts = [m \in Mails |-> 0]
    /\ cycle = [c \in Cycles |-> IdleCycle]
    /\ sends = [m \in Mails |-> 0]
    /\ left = [m \in Mails |-> 0]
    /\ faults = 0

-----------------------------------------------------------------------------
(* The user cycle.                                                         *)

\* syncEmails stores what has arrived so far.
StartCycle(c) ==
    /\ At(c, "idle")
    /\ \E n \in {0} \cup Mails :
         LET N == {m \in Mails : mail[m] = "coming" /\ m <= n} IN
         /\ mail' = [m \in Mails |-> IF m \in N THEN "stored" ELSE mail[m]]
         /\ cycle' = [cycle EXCEPT ![c] = [@ EXCEPT !.pc = "synced", !.todo = N]]
    /\ UNCHANGED <<item, ledgerVars, drafts, ghostVars, faults>>

\* The push webhook, a manual sync and the sign-in sync store mail as well.
SyncElsewhere(m) ==
    /\ mail[m] = "coming"
    /\ \A x \in Mails : x < m => mail[x] # "coming"
    /\ mail' = [mail EXCEPT ![m] = "stored"]
    /\ UNCHANGED <<item, ledgerVars, drafts, cycle, ghostVars, faults>>

\* The rule loop reads back as many of the newest mails as this sync stored.
FindNew(c) ==
    /\ At(c, "synced")
    /\ LET new == Newest({m \in Mails : mail[m] = "stored"}, Cardinality(cycle[c].todo)) IN
       cycle' = [cycle EXCEPT ![c] = [@ EXCEPT !.pc = "next", !.todo = new]]
    /\ UNCHANGED <<mail, item, ledgerVars, drafts, ghostVars, faults>>

\* The judge files a queue item for a stored mail, inline or by the backfill.
JudgeItem(m) ==
    /\ mail[m] = "stored" /\ item[m] = "NONE" /\ m \in ModeMails
    /\ item' = [item EXCEPT ![m] = "OPEN"]
    /\ UNCHANGED <<mail, ledgerVars, drafts, cycle, ghostVars, faults>>

\* The next mail of the list, newest first; one that is claimed already (or,
\* for auto mode, gone) is passed over.
NextMail(c) ==
    /\ At(c, "next")
    /\ \E m \in Newest(cycle[c].todo, 1) :
         \/ /\ Unclaimed(m)
            /\ cycle[c].path = "mode" => mail[m] = "stored"
            /\ cycle' = [cycle EXCEPT ![c] =
                            [@ EXCEPT !.pc = "guarding", !.mail = m, !.todo = cycle[c].todo \ {m}]]
         \/ /\ ~Unclaimed(m) \/ (cycle[c].path = "mode" /\ mail[m] # "stored")
            /\ cycle' = [cycle EXCEPT ![c].todo = @ \ {m}]
    /\ UNCHANGED <<mail, item, ledgerVars, drafts, ghostVars, faults>>

Open == {m \in Mails : item[m] = "OPEN"}

\* canAutoSendFromMailbox, and the mail is there and nobody claimed it.
Sendable(m) == mail[m] = "stored" /\ Unclaimed(m) /\ m \notin Unsendable

\* findAutoModeCandidates: of the newest ScanMax open items those that can be
\* sent, and of these the newest Take.  Guarded mail and mail out of draft
\* attempts still count.  First a mistake: the items cut to Take beforehand.
CandidatesCutFirst == {m \in Newest(Open, Take) : Sendable(m)}
Candidates == Newest({m \in Newest(Open, ScanMax) : Sendable(m)}, Take)

FindCandidates(c) ==
    /\ At(c, "next") /\ cycle[c].path = "rule" /\ cycle[c].todo = {}
    /\ cycle' = [cycle EXCEPT ![c] = [@ EXCEPT !.path = "mode", !.todo = Candidates]]
    /\ UNCHANGED <<mail, item, ledgerVars, drafts, ghostVars, faults>>

EndCycle(c) ==
    /\ At(c, "next") /\ cycle[c].path = "mode" /\ cycle[c].todo = {}
    /\ cycle' = [cycle EXCEPT ![c] = IdleCycle]
    /\ UNCHANGED <<mail, item, ledgerVars, drafts, ghostVars, faults>>

-----------------------------------------------------------------------------
(* One mail, by either path.                                               *)

\* The cap on empty drafts.
AttemptsLeft(m) == drafts[m] < MaxDrafts

\* What is checked before an LLM call is paid for.
MayReply(c) ==
    LET m == cycle[c].mail IN
    /\ m \notin Guarded
    /\ RepliesToday < Cap
    /\ IF cycle[c].path = "rule" THEN m \in RuleMails ELSE AttemptsLeft(m)

Guard(c) ==
    /\ At(c, "guarding")
    /\ \/ /\ MayReply(c)
          /\ cycle' = [cycle EXCEPT ![c] =
                          [@ EXCEPT !.pc = "drafting", !.tries = drafts[cycle[c].mail]]]
       \/ ~MayReply(c) /\ Leave(c)
    /\ UNCHANGED <<mail, item, ledgerVars, drafts, ghostVars, faults>>

Draft(c) ==
    /\ At(c, "drafting")
    /\ drafts' = IF cycle[c].path = "mode" THEN [drafts EXCEPT ![cycle[c].mail] = 0] ELSE drafts
    /\ cycle' = [cycle EXCEPT ![c] = [@ EXCEPT !.pc = "drafted", !.tries = 0]]
    /\ UNCHANGED <<mail, item, ledgerVars, ghostVars, faults>>

\* The LLM gave no text (auto mode counts it) or threw.
DraftFails(c) ==
    /\ At(c, "drafting")
    /\ \/ UNCHANGED drafts
       \/ /\ cycle[c].path = "mode"
          /\ drafts' = [drafts EXCEPT ![cycle[c].mail] = cycle[c].tries + 1]
    /\ Leave(c)
    /\ UNCHANGED <<mail, item, ledgerVars, ghostVars, faults>>

\* emailStillExists: the draft took seconds.
Recheck(c) ==
    /\ At(c, "drafted")
    /\ IF mail[cycle[c].mail] = "stored" THEN Goto(c, "claiming") ELSE Leave(c)
    /\ UNCHANGED <<mail, item, ledgerVars, drafts, ghostVars, faults>>

\* The claim row is created: hidden and pending for a rule, as the final
\* "Klorn replied for you" for auto mode.
Claimed(path, m) ==
    /\ ledger' = [ledger EXCEPT ![m] = IF path = "rule" THEN "pending" ELSE "replied"]
    /\ shown' = [shown EXCEPT ![m] = ShowsClaim(path)]
    /\ today' = today \cup {m}

Claim(c) ==
    LET m == cycle[c].mail IN
    /\ At(c, "claiming")
    /\ \/ Unclaimed(m) /\ Claimed(cycle[c].path, m) /\ Goto(c, "sending")
       \/ ~Unclaimed(m) /\ Leave(c) /\ UNCHANGED ledgerVars
    /\ UNCHANGED <<mail, item, drafts, ghostVars, faults>>

\* sendAutoReplyViaFloor: accepted and gone; certainly not sent; or an error
\* that leaves the delivery unknown.
Send(c) ==
    LET m == cycle[c].mail IN
    /\ At(c, "sending")
    /\ \E out \in Outcomes, gone \in {0, 1} :
         /\ out = "accepted" => gone = 1
         /\ out = "unsupported" => gone = 0
         /\ left' = [left EXCEPT ![m] = @ + gone]
         /\ cycle' = [cycle EXCEPT ![c] = [@ EXCEPT !.pc = "settling", !.out = out]]
    /\ sends' = [sends EXCEPT ![m] = @ + 1]
    /\ UNCHANGED <<mail, item, ledgerVars, drafts, faults>>

\* Only a provable success is recorded as one, and only a provable refusal as a
\* failure; first the answer stored raw, then every error taken for a refusal.
RecordRaw(out) == out
RecordErrorAsFailed(out) == IF out = "accepted" THEN "sent" ELSE "failed"
Record(out) ==
    CASE out = "accepted"    -> "sent"
      [] out = "unsupported" -> "failed"
      [] out = "error"       -> "unconfirmed"

\* A queue item is resolved for an accepted reply; resolved for any, a failed
\* send would leave the human's queue.
ResolvesAnyway(out) == TRUE
Resolves(out) == out = "accepted"

\* The rule path records the outcome and shows it; auto mode keeps its record
\* and resolves the item, or rewrites the record and leaves the item open.
SettleRule(c) ==
    LET m == cycle[c].mail IN
    /\ At(c, "settling") /\ cycle[c].path = "rule"
    /\ ledger' = [ledger EXCEPT ![m] = Record(cycle[c].out)]
    /\ shown' = [shown EXCEPT ![m] = TRUE]
    /\ Leave(c)
    /\ UNCHANGED <<mail, item, today, drafts, ghostVars, faults>>

SettleMode(c) ==
    LET m == cycle[c].mail
        out == cycle[c].out
    IN
    /\ At(c, "settling") /\ cycle[c].path = "mode"
    /\ ledger' = IF out = "accepted" THEN ledger ELSE [ledger EXCEPT ![m] = Record(out)]
    /\ item' = IF Resolves(out) THEN [item EXCEPT ![m] = "RESOLVED"] ELSE item
    /\ Leave(c)
    /\ UNCHANGED <<mail, shown, today, drafts, ghostVars, faults>>

-----------------------------------------------------------------------------
(* The user and the clock.                                                 *)

\* Trashed by the user, or pruned by the reconcile, which closes the queue item
\* first (CloseItem).
DeleteMail(m) ==
    /\ mail[m] = "stored"
    /\ mail' = [mail EXCEPT ![m] = "deleted"]
    /\ UNCHANGED <<item, ledgerVars, drafts, cycle, ghostVars, faults>>

\* The user dismisses or resolves the queue item, or it ages out.
CloseItem(m) ==
    /\ item[m] = "OPEN"
    /\ item' = [item EXCEPT ![m] = "CLOSED"]
    /\ UNCHANGED <<mail, ledgerVars, drafts, cycle, ghostVars, faults>>

\* Clearing the bell hides the claim rows and keeps them.
ClearNotifications ==
    /\ \E m \in Mails : shown[m]
    /\ shown' = [m \in Mails |-> FALSE]
    /\ UNCHANGED <<mail, item, ledger, today, drafts, cycle, ghostVars, faults>>

Midnight ==
    /\ today # {}
    /\ today' = {}
    /\ UNCHANGED <<mail, item, ledger, shown, drafts, cycle, ghostVars, faults>>

-----------------------------------------------------------------------------
(* Faults.                                                                 *)

\* The process dies with every cycle and the attempt counter in it.
Crash ==
    /\ Fault("crash")
    /\ \E c \in Cycles : ~At(c, "idle")
    /\ cycle' = [c \in Cycles |-> IdleCycle]
    /\ drafts' = [m \in Mails |-> 0]
    /\ UNCHANGED <<mail, item, ledgerVars, ghostVars>>

\* The claim throws; with its acknowledgement lost the row is there.
ClaimFails(c) ==
    LET m == cycle[c].mail IN
    /\ At(c, "claiming")
    /\ \/ Fault("write") /\ UNCHANGED ledgerVars
       \/ Fault("lostack") /\ Unclaimed(m) /\ Claimed(cycle[c].path, m)
    /\ Leave(c)
    /\ UNCHANGED <<mail, item, drafts, ghostVars>>

\* A failed rewrite or resolve is logged and left.
SettleFails(c) ==
    /\ At(c, "settling")
    /\ Fault("write")
    /\ Leave(c)
    /\ UNCHANGED <<mail, item, ledgerVars, drafts, ghostVars>>

-----------------------------------------------------------------------------
CycleStep(c) ==
    \/ StartCycle(c) \/ FindNew(c) \/ NextMail(c) \/ FindCandidates(c) \/ EndCycle(c)
    \/ Guard(c) \/ Draft(c) \/ DraftFails(c) \/ Recheck(c) \/ Claim(c)
    \/ Send(c) \/ SettleRule(c) \/ SettleMode(c)

FaultStep == Crash \/ \E c \in Cycles : ClaimFails(c) \/ SettleFails(c)

Next ==
    \/ \E c \in Cycles : CycleStep(c)
    \/ \E m \in Mails : SyncElsewhere(m) \/ JudgeItem(m) \/ DeleteMail(m) \/ CloseItem(m)
    \/ ClearNotifications \/ Midnight
    \/ FaultStep

Spec == Init /\ [][Next]_vars

(***************************************************************************)
(* The scheduler starts a cycle on every due tick, the event loop runs it  *)
(* on, and provider, database and LLM calls return.  An LLM that is asked  *)
(* again and again gives a text in the end.                                *)
(***************************************************************************)
Fairness == \A c \in Cycles : WF_vars(CycleStep(c)) /\ SF_vars(Draft(c))

FairSpec == Spec /\ Fairness

-----------------------------------------------------------------------------
(* Properties.                                                             *)

CycleType ==
    [pc : {"idle", "synced", "next"} \cup WorkPcs, path : {"rule", "mode"}, todo : SUBSET Mails,
     mail : Mails \cup {NoMail}, tries : Nat, out : Outcomes]

\* The type invariant.
TypeOK ==
    /\ mail \in [Mails -> {"coming", "stored", "deleted"}]
    /\ item \in [Mails -> {"NONE", "OPEN", "RESOLVED", "CLOSED"}]
    /\ ledger \in [Mails -> Records]
    /\ shown \in [Mails -> BOOLEAN]
    /\ today \subseteq Mails
    /\ drafts \in [Mails -> Nat]
    /\ cycle \in [Cycles -> CycleType]
    /\ \A c \in Cycles : cycle[c].pc \in WorkPcs => cycle[c].mail \in Mails
    /\ sends \in [Mails -> Nat] /\ left \in [Mails -> Nat]
    /\ faults \in Nat

\* "An unattended DOUBLE-send is worse than a missed one": whatever the two
\* paths, overlapping cycles, crashes, lost acknowledgements and a cleared bell
\* do, a reply to one mail is handed to the provider at most once.
AtMostOneReply == \A m \in Mails : sends[m] <= 1

\* The daily cap is read before the claim: it is exceeded by no more than the
\* cycles that were in flight besides the one that filled it.
CapOvershoot == Cardinality(today) + 1 <= Cap + Cardinality(Cycles)

Working(m) == \E c \in Cycles : cycle[c].pc \in WorkPcs /\ cycle[c].mail = m

\* "The ledger must not lie": a reply recorded as sent left, one recorded as
\* failed did not; and without faults, once nobody works on the mail, nothing
\* is left pending and a "Klorn replied for you" is true.
LedgerIsTrue ==
    \A m \in Mails :
      /\ ledger[m] = "sent" => left[m] = 1
      /\ ledger[m] = "failed" => left[m] = 0
      /\ faults = 0 /\ ~Working(m) =>
           /\ ledger[m] # "pending"
           /\ ledger[m] = "replied" => left[m] = 1

\* The queue: an item auto mode resolved was answered, and a mail whose claim
\* is in flight or went wrong is not shown as answered.
ResolvedMeansAnswered == \A m \in Mails : item[m] = "RESOLVED" => left[m] = 1

\* The bell never lists a claim that has not settled.
PendingIsHidden == \A m \in Mails : ledger[m] = "pending" => ~shown[m]

\* The sweep passes it over for good: guarded, or out of draft attempts.
Stuck(m) == m \in Guarded \/ ~AttemptsLeft(m)

\* An open item auto mode can answer.
Waits(m) == m \in Open /\ Sendable(m) /\ ~Stuck(m)

\* Newer mail stands before m: so many open items that the scan does not reach
\* it, or Take of them that can be sent and will not be answered.
OutOfReach(m) ==
    \/ Cardinality({x \in Open : x > m}) >= ScanMax
    \/ Cardinality({x \in Open : x > m /\ Sendable(x) /\ Stuck(x)}) >= Take

\* "`take` is applied AFTER exclusion: otherwise five newer NAVER (or
\* ledger-failed) items would starve every sendable item behind them": an item
\* auto mode can answer is claimed in the end, however many newer ones are
\* unsendable, gone, already claimed or to be answered first; unless user or
\* mailbox take it away or it gets out of reach (auto-mode-candidates.ts:18-20).
AnswerableIsClaimed ==
    \A m \in Mails : Waits(m) ~> ~Waits(m) \/ OutOfReach(m) \/ RepliesToday >= Cap

Promise == INSTANCE ReplyPromise WITH
    record   <- ledger,
    handed   <- sends,
    gone     <- left,
    answered <- [m \in Mails |-> item[m] = "RESOLVED"]

\* "A failed send keeps its claim so nothing retries it": the two paths,
\* overlapping cycles and every fault together move each mail only along claim,
\* one send, one settlement; nothing is sent for a settled claim and no settled
\* record is rewritten (ReplyPromise; automation-scheduler.ts:574-580).
KeepsReplyPromise == Promise!Spec

\* "The user is never told a reply went out when it didn't": once nobody works
\* on the mail, a "Klorn replied for you" is true.
ToldOnlyIfGone == \A m \in Mails : ledger[m] = "replied" /\ ~Working(m) => left[m] = 1
=============================================================================
