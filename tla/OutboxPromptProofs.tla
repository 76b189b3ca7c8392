------------------------- MODULE OutboxPromptProofs -------------------------
(***************************************************************************)
(* Theorems about the outbox while every attempt ends within the stale     *)
(* window and every database statement is answered: in a system that has   *)
(* only crashes and misreporting tools to fear, and in any system until    *)
(* its first fault.                                                        *)
(***************************************************************************)
EXTENDS ActionOutboxProofs, MCActionOutboxPrompt

USE DEF queueVars

\* No fault of the kinds that make two attempts meet.
Punctual == Faults \cap {"slow", "write", "lostack"} = {}
Quiet == Punctual \/ faults = 0

(* What a runner stands for is what the row says, and one attempt at most   *)
(* is in flight on an action.                                               *)
Agrees(r) ==
    LET a == run[r].act IN
    /\ run[r].pc # "infra"
    /\ run[r].pc \in InFlightPcs => row[a] = ClaimedRow(run[r].no)
    /\ run[r].pc = "ok" => executed[a] > 0
    /\ run[r].pc = "completed" => row[a].status = "COMPLETED"
    /\ run[r].pc \in {"dead", "failed"} => row[a].status = "DEAD"
    /\ run[r].pc = "failed" => pa[a] = "FAILED"
    /\ run[r].pc = "rejected" => pa[a] = "REJECTED"

Alone ==
    \A q, r \in Runners :
      /\ run[q].pc \in InFlightPcs /\ run[r].pc \in InFlightPcs
      /\ run[q].act = run[r].act
      => q = r

(* Whatever is written of an action agrees with its row and its decision.   *)
Stored(a) ==
    /\ row[a].status = "COMPLETED" => executed[a] > 0
    /\ pa[a] = "FAILED" => row[a].status = "DEAD"
    /\ "APPROVED" \in feedback[a] => row[a].status = "COMPLETED"
    /\ "FAILED" \in feedback[a] => row[a].status = "DEAD"
    /\ "REJECTED" \in feedback[a] => pa[a] = "REJECTED"

Prompt == Alone /\ (\A r \in Runners : Agrees(r)) /\ (\A a \in Actions : Stored(a))

PromptInv == Quiet => Prompt

-----------------------------------------------------------------------------
\* The pcs that claim something of a row.
ClaimingPcs == InFlightPcs \cup {"completed", "dead", "failed"}

\* What a typed state says of one action and one runner.
LEMMA StateTypes ==
  ASSUME TypeOK
  PROVE  /\ row \in [Actions -> RowType] /\ pa \in [Actions -> PaStatus]
         /\ executed \in [Actions -> Nat] /\ feedback \in [Actions -> SUBSET Signals]
         /\ run \in [Runners -> RunType] /\ RunTypeOK
         /\ \A r \in Runners : run[r].pc # "idle" => run[r].act \in Actions
  BY DEF TypeOK, QueueTypeOK, RowTypeOK, RunTypeOK, GhostTypeOK

\* A step of one runner on one action, checked there alone.
LEMMA PromptFrame ==
  ASSUME TypeOK, Prompt, NEW r \in Runners, NEW e \in Actions,
         \A q \in Runners \ {r} : run'[q] = run[q],
         \A a \in Actions \ {e} : /\ row'[a] = row[a] /\ executed'[a] = executed[a]
                                  /\ pa'[a] = pa[a] /\ feedback'[a] = feedback[a],
         run'[r].act = e \/ run'[r].pc = "idle",
         Agrees(r)', Stored(e)',
         \A q \in Runners \ {r} : run[q].act = e /\ run[q].pc # "idle" => Agrees(q)',
         run'[r].pc \in InFlightPcs =>
           \A q \in Runners \ {r} : run[q].act = e => run[q].pc \notin InFlightPcs
  PROVE  Prompt'
<1>t. \A q \in Runners : run[q].pc # "idle" => run[q].act \in Actions
  BY StateTypes
<1>1. ASSUME NEW q \in Runners PROVE Agrees(q)'
  <2>1. CASE q # r /\ run[q].pc = "idle"
    BY <2>1 DEF Agrees, InFlightPcs
  <2>2. CASE q # r /\ run[q].pc # "idle" /\ run[q].act # e
    <3>1. run[q].act \in Actions \ {e} /\ run'[q] = run[q] /\ Agrees(q)
      BY <1>t, <2>2 DEF Prompt
    <3> QED BY <3>1 DEF Agrees
  <2> QED BY <2>1, <2>2
<1>2. ASSUME NEW a \in Actions PROVE Stored(a)'
  BY <1>2 DEF Prompt, Stored
<1>3. Alone'
  <2> SUFFICES ASSUME NEW p \in Runners, NEW q \in Runners, run'[p].pc \in InFlightPcs,
                      run'[q].pc \in InFlightPcs, run'[p].act = run'[q].act
               PROVE  p = q
    BY DEF Alone
  <2> QED BY DEF Prompt, Alone, InFlightPcs
<1> QED BY <1>1, <1>2, <1>3 DEF Prompt

\* A step that writes no row, decision, effect or feedback and puts its runner
\* where nothing is claimed.
LEMMA PromptMoves ==
  ASSUME TypeOK, Prompt, NEW r \in Runners, UNCHANGED <<row, pa, executed, feedback>>,
         \A q \in Runners \ {r} : run'[q] = run[q],
         run'[r].pc \notin ClaimingPcs \cup {"rejected", "infra"}
  PROVE  Prompt'
<1>1. \A q \in Runners : Agrees(q)'
  <2> TAKE q \in Runners
  <2>1. CASE q = r
    BY <2>1 DEF Agrees, ClaimingPcs, InFlightPcs
  <2>2. CASE q # r
    BY <2>2 DEF Prompt, Agrees
  <2> QED BY <2>1, <2>2
<1>2. \A a \in Actions : Stored(a)'
  BY DEF Prompt, Stored
<1>3. Alone'
  BY DEF Prompt, Alone, ClaimingPcs
<1> QED BY <1>1, <1>2, <1>3 DEF Prompt

\* Nobody else claims anything of a row that says otherwise.
LEMMA OthersSilent ==
  ASSUME TypeOK, Prompt, NEW q \in Runners, NEW e \in Actions, run[q].act = e,
         row[e].status \in {"NONE", "QUEUED"}
  PROVE  run[q].pc \notin ClaimingPcs
<1>1. Agrees(q)
  BY DEF Prompt
<1>2. \A n : ClaimedRow(n).status = "IN_PROGRESS"
  BY DEF ClaimedRow
<1>3. CASE run[q].pc \in InFlightPcs
  BY <1>1, <1>2, <1>3 DEF Agrees
<1>4. CASE run[q].pc \notin InFlightPcs
  BY <1>1, <1>4 DEF Agrees, ClaimingPcs
<1> QED BY <1>3, <1>4

LEMMA OthersAside ==
  ASSUME TypeOK, Prompt, NEW q \in Runners, NEW r \in Runners \ {q}, run[q].act = run[r].act,
         run[r].pc \in InFlightPcs
  PROVE  run[q].pc \notin ClaimingPcs
<1>1. row[run[r].act].status = "IN_PROGRESS"
  <2>1. Agrees(r)
    BY DEF Prompt
  <2>2. \A n : ClaimedRow(n).status = "IN_PROGRESS"
    BY DEF ClaimedRow
  <2> QED BY <2>1, <2>2 DEF Agrees
<1>2. Agrees(q) /\ run[q].pc \notin InFlightPcs
  BY DEF Prompt, Alone
<1> QED BY <1>1, <1>2 DEF Agrees, ClaimingPcs

LEMMA SilentAgrees ==
  ASSUME Prompt, NEW q \in Runners, run'[q] = run[q], run[q].pc \notin ClaimingPcs,
         pa[run[q].act] = "REJECTED" => pa'[run[q].act] = "REJECTED"
  PROVE  Agrees(q)'
  BY DEF Prompt, Agrees, ClaimingPcs, InFlightPcs

\* A runner that moves on keeps its attempt's number.
LEMMA GotoKeeps ==
  ASSUME RunTypeOK, NEW r \in Runners, NEW p, Goto(r, p)
  PROVE  run'[r].no = run[r].no
  BY DEF RunTypeOK, RunType, Goto

LEMMA RequestPrompt ==
  ASSUME TypeOK, IntentInv, Prompt, NEW s \in Slots, RequestStep(s)
  PROVE  Prompt'
<1> USE DEF At
<1>t. s \in Runners /\ run[s].pc # "idle"
  BY DEF Runners, RequestStep, CommitApproval, MirrorApproval, ReadRow, CommitReject,
     MirrorReject, WriteSnooze
<1>e. PICK e \in Actions : e = run[s].act
  BY <1>t, StateTypes
<1>m. /\ \A p : Goto(s, p) => /\ run'[s].pc = p /\ run'[s].act = e
                              /\ \A q \in Runners \ {s} : run'[q] = run[q]
      /\ Rest(s) => run'[s].pc = "idle" /\ \A q \in Runners \ {s} : run'[q] = run[q]
  BY <1>t, <1>e, Moves, StateTypes
<1>c. /\ {"idle", "approved", "mirrored", "ready"} \cap (ClaimingPcs \cup {"rejected", "infra"}) = {}
      /\ {"rejected", "approved"} \cap ClaimingPcs = {}
  BY DEF ClaimingPcs, InFlightPcs
<1>s. /\ row \in [Actions -> RowType] /\ pa \in [Actions -> PaStatus]
      /\ executed \in [Actions -> Nat] /\ feedback \in [Actions -> SUBSET Signals]
      /\ run \in [Runners -> RunType]
  BY StateTypes
<1>1. CASE CommitApproval(s) /\ StillPending(e)
  <2>1. /\ pa' = [pa EXCEPT ![e] = "EXECUTED"]
        /\ row' = [row EXCEPT ![e] = [status |-> "QUEUED", attempts |-> 0, ripe |-> TRUE]]
        /\ Goto(s, "approved") /\ UNCHANGED <<executed, feedback>> /\ pa[e] = "PENDING"
    BY <1>1, <1>e DEF CommitApproval, StillPending
  <2>2. row[e].status = "NONE"
    BY <2>1 DEF IntentInv, ApprovalHasIntent, Approved
  <2>3. Stored(e)'
    <3>1. Stored(e)
      BY DEF Prompt
    <3> QED BY <1>s, <2>1, <2>2, <3>1 DEF Stored
  <2>4. \A q \in Runners \ {s} : run[q].act = e => run[q].pc \notin ClaimingPcs /\ Agrees(q)'
    BY <1>m, <2>1, <2>2, OthersSilent, SilentAgrees
  <2>5. Agrees(s)'
    BY <1>m, <2>1 DEF Agrees, InFlightPcs
  <2>6. run'[s].pc \notin InFlightPcs
    BY <1>m, <2>1 DEF InFlightPcs
  <2> QED BY <1>t, <1>s, <1>m, <2>1, <2>3, <2>4, <2>5, <2>6, PromptFrame
<1>2. CASE CommitApproval(s) /\ ~StillPending(e)
  <2>1. Rest(s) /\ UNCHANGED <<row, pa, executed, feedback>>
    BY <1>2, <1>e DEF CommitApproval
  <2> QED BY <1>t, <1>m, <1>c, <2>1, PromptMoves
<1>3. CASE CommitReject(s) /\ StillPending(e)
  <2>1. /\ pa' = [pa EXCEPT ![e] = "REJECTED"] /\ pa[e] = "PENDING"
        /\ Goto(s, "rejected") /\ UNCHANGED <<row, executed, feedback>>
    BY <1>3, <1>e DEF CommitReject, StillPending
  <2>2. row[e].status = "NONE"
    BY <2>1 DEF IntentInv, ApprovalHasIntent, Approved
  <2>3. Stored(e)'
    <3>1. Stored(e)
      BY DEF Prompt
    <3> QED BY <1>s, <2>1, <2>2, <3>1 DEF Stored
  <2>4. \A q \in Runners \ {s} : run[q].act = e => run[q].pc \notin ClaimingPcs /\ Agrees(q)'
    BY <1>m, <1>s, <2>1, <2>2, OthersSilent, SilentAgrees
  <2>5. Agrees(s)'
    BY <1>m, <1>s, <2>1 DEF Agrees, InFlightPcs
  <2>6. run'[s].pc \notin InFlightPcs
    BY <1>m, <2>1 DEF InFlightPcs
  <2> QED BY <1>t, <1>s, <1>m, <2>1, <2>3, <2>4, <2>5, <2>6, PromptFrame
<1>4. CASE CommitReject(s) /\ ~StillPending(e)
  <2>1. Rest(s) /\ UNCHANGED <<row, pa, executed, feedback>>
    BY <1>4, <1>e DEF CommitReject
  <2> QED BY <1>t, <1>m, <1>c, <2>1, PromptMoves
<1>5. CASE MirrorApproval(s) \/ WriteSnooze(s)
  <2>1. (Goto(s, "mirrored") \/ Rest(s)) /\ UNCHANGED <<row, pa, executed, feedback>>
    BY <1>5 DEF MirrorApproval, WriteSnooze
  <2> QED BY <1>t, <1>m, <1>c, <2>1, PromptMoves
<1>6. CASE ReadRow(s)
  <2>1. /\ run'[s].pc = "ready" /\ \A q \in Runners \ {s} : run'[q] = run[q]
        /\ UNCHANGED <<row, pa, executed, feedback>>
    BY <1>6, <1>t, <1>s DEF ReadRow, Start
  <2> QED BY <1>t, <1>c, <2>1, PromptMoves
<1>7. CASE MirrorReject(s)
  <2>1. /\ feedback' = [feedback EXCEPT ![e] = @ \cup {"REJECTED"}] /\ Rest(s)
        /\ UNCHANGED <<row, pa, executed>> /\ run[s].pc = "rejected"
    BY <1>7, <1>e DEF MirrorReject
  <2>2. Stored(e)'
    <3>1. Stored(e) /\ pa[e] = "REJECTED"
      BY <1>t, <1>e, <2>1 DEF Prompt, Agrees
    <3> QED BY <1>s, <2>1, <3>1 DEF Stored
  <2>3. \A q \in Runners \ {s} : run[q].act = e => Agrees(q)'
    BY <1>m, <2>1 DEF Prompt, Agrees
  <2>4. Agrees(s)' /\ run'[s].pc \notin InFlightPcs
    BY <1>m, <2>1 DEF Agrees, InFlightPcs
  <2> QED BY <1>t, <1>s, <1>m, <2>1, <2>2, <2>3, <2>4, PromptFrame
<1> QED
  BY <1>1, <1>2, <1>3, <1>4, <1>5, <1>6, <1>7 DEF RequestStep, CommitApproval, CommitReject
LEMMA AttemptPrompt ==
  ASSUME TypeOK, IntentInv, Prompt, NEW r \in Runners, AttemptStep(r)
  PROVE  Prompt'
<1> USE DEF At
<1>t. run[r].pc # "idle"
  BY DEF AttemptStep, Claim, ToolSucceeds, ToolFails, WriteCompleted, WriteFailure,
     OnCompleted, OnDead, MirrorFailure
<1>e. PICK e \in Actions : e = run[r].act
  BY <1>t, StateTypes
<1>m. /\ \A p : Goto(r, p) => /\ run'[r].pc = p /\ run'[r].act = e /\ run'[r].no = run[r].no
                              /\ \A q \in Runners \ {r} : run'[q] = run[q]
      /\ Rest(r) => run'[r].pc = "idle" /\ \A q \in Runners \ {r} : run'[q] = run[q]
  BY <1>t, <1>e, Moves, GotoKeeps, StateTypes
<1>s. /\ row \in [Actions -> RowType] /\ pa \in [Actions -> PaStatus]
      /\ executed \in [Actions -> Nat] /\ feedback \in [Actions -> SUBSET Signals]
      /\ run \in [Runners -> RunType]
  BY StateTypes
<1>g. Agrees(r) /\ Stored(e)
  BY DEF Prompt
\* The holder of a claim writes the row: nobody else claims anything of it.
<1>h. ASSUME run[r].pc \in InFlightPcs,
             \A a \in Actions \ {e} : row'[a] = row[a],
             \A a \in Actions \ {e} : executed'[a] = executed[a],
             UNCHANGED <<pa, feedback>>, \A q \in Runners \ {r} : run'[q] = run[q],
             run'[r].act = e \/ run'[r].pc = "idle", Agrees(r)', Stored(e)'
      PROVE  Prompt'
  <2>1. \A q \in Runners \ {r} : run[q].act = e => run[q].pc \notin ClaimingPcs /\ Agrees(q)'
    BY <1>h, <1>e, OthersAside, SilentAgrees
  <2>2. InFlightPcs \subseteq ClaimingPcs
    BY DEF ClaimingPcs
  <2> QED BY <1>h, <2>1, <2>2, PromptFrame
<1>1. CASE Claim(r) /\ Claimable(e)
  <2>1. /\ Goto(r, "running") /\ row' = [row EXCEPT ![e] = ClaimedRow(run[r].no)]
        /\ UNCHANGED <<pa, executed, feedback>> /\ row[e].status = "QUEUED"
    BY <1>1, <1>e DEF Claim, Claimable
  <2>2. \A q \in Runners \ {r} : run[q].act = e => run[q].pc \notin ClaimingPcs /\ Agrees(q)'
    BY <1>m, <2>1, OthersSilent, SilentAgrees
  <2>3. Agrees(r)'
    <3>1. row'[e] = ClaimedRow(run[r].no)
      BY <1>s, <2>1
    <3> QED BY <1>m, <2>1, <3>1 DEF Agrees
  <2>4. Stored(e)'
    BY <1>s, <1>g, <2>1 DEF Stored, ClaimedRow
  <2>5. InFlightPcs \subseteq ClaimingPcs
    BY DEF ClaimingPcs
  <2> QED BY <1>s, <1>m, <2>1, <2>2, <2>3, <2>4, <2>5, PromptFrame
<1>2. CASE Claim(r) /\ ~Claimable(e)
  <2>1. Rest(r) /\ UNCHANGED <<row, pa, executed, feedback>>
    BY <1>2, <1>e DEF Claim
  <2> QED BY <1>m, <2>1, PromptMoves DEF ClaimingPcs, InFlightPcs
<1>3. CASE ToolSucceeds(r)
  <2>1. /\ Goto(r, "ok") /\ run[r].pc = "running" /\ UNCHANGED <<row, pa, feedback>>
        /\ executed' = [executed EXCEPT ![e] = @ + 1]
    BY <1>3, <1>e DEF ToolSucceeds
  <2>2. executed'[e] > 0 /\ row[e] = ClaimedRow(run[r].no)
    BY <1>s, <1>e, <1>g, <2>1 DEF Agrees, InFlightPcs
  <2>3. Agrees(r)'
    BY <1>m, <2>1, <2>2 DEF Agrees
  <2>4. Stored(e)'
    BY <1>g, <2>1, <2>2 DEF Stored
  <2> QED BY <1>s, <1>m, <1>h, <2>1, <2>3, <2>4 DEF InFlightPcs
<1>4. CASE ToolFails(r)
  <2>1. PICK class \in {"transient", "permanent"} : Goto(r, class)
    BY <1>4 DEF ToolFails
  <2>2. UNCHANGED <<row, pa, executed, feedback>> /\ run[r].pc = "running"
    BY <1>4 DEF ToolFails
  <2>3. Agrees(r)'
    BY <1>e, <1>g, <1>m, <2>1, <2>2 DEF Agrees, InFlightPcs
  <2>4. Stored(e)'
    BY <1>g, <2>2 DEF Stored
  <2> QED BY <1>m, <1>h, <2>1, <2>2, <2>3, <2>4 DEF InFlightPcs
<1>5. CASE WriteCompleted(r)
  <2>1. /\ Goto(r, "completed") /\ run[r].pc = "ok" /\ UNCHANGED <<pa, executed, feedback>>
        /\ row' = [row EXCEPT ![e] = CompletedRow(run[r].no)]
    BY <1>5, <1>e DEF WriteCompleted
  <2>2. executed[e] > 0 /\ row'[e].status = "COMPLETED" /\ row[e].status = "IN_PROGRESS"
    BY <1>s, <1>e, <1>g, <2>1 DEF Agrees, CompletedRow, ClaimedRow, InFlightPcs
  <2>3. Agrees(r)'
    BY <1>m, <2>1, <2>2 DEF Agrees, InFlightPcs
  <2>4. Stored(e)'
    BY <1>g, <2>1, <2>2 DEF Stored
  <2> QED BY <1>s, <1>m, <1>h, <2>1, <2>3, <2>4 DEF InFlightPcs
<1>6. CASE WriteFailure(r)
  <2>1. /\ run[r].pc \in {"transient", "permanent"} /\ UNCHANGED <<pa, executed, feedback>>
        /\ row' = [row EXCEPT ![e] = FailedRow(run[r].pc, run[r].no)]
        /\ \/ FailedRow(run[r].pc, run[r].no).status = "QUEUED" /\ Rest(r)
           \/ FailedRow(run[r].pc, run[r].no).status = "DEAD" /\ Goto(r, "dead")
    BY <1>6, <1>e DEF WriteFailure
  <2>2. row[e].status = "IN_PROGRESS" /\ row'[e] = FailedRow(run[r].pc, run[r].no)
    BY <1>s, <1>e, <1>g, <2>1 DEF Agrees, ClaimedRow, InFlightPcs
  <2>3. Agrees(r)'
    BY <1>m, <2>1, <2>2 DEF Agrees, InFlightPcs
  <2>4. Stored(e)'
    BY <1>g, <2>1, <2>2 DEF Stored
  <2> QED BY <1>s, <1>m, <1>h, <2>1, <2>3, <2>4 DEF InFlightPcs
<1>7. CASE OnCompleted(r)
  <2>1. /\ feedback' = [feedback EXCEPT ![e] = @ \cup {"APPROVED"}] /\ Rest(r)
        /\ UNCHANGED <<row, pa, executed>> /\ run[r].pc = "completed"
    BY <1>7, <1>e DEF OnCompleted
  <2>2. Stored(e)'
    BY <1>s, <1>e, <1>g, <2>1 DEF Stored, Agrees
  <2>3. \A q \in Runners \ {r} : run[q].act = e => Agrees(q)'
    BY <1>m, <2>1 DEF Prompt, Agrees
  <2>4. Agrees(r)' /\ run'[r].pc \notin InFlightPcs
    BY <1>m, <2>1 DEF Agrees, InFlightPcs
  <2> QED BY <1>s, <1>m, <2>1, <2>2, <2>3, <2>4, PromptFrame
<1>8. CASE OnDead(r)
  <2>1. /\ pa' = [pa EXCEPT ![e] = "FAILED"] /\ Goto(r, "failed") /\ run[r].pc = "dead"
        /\ UNCHANGED <<row, executed, feedback>>
    BY <1>8, <1>e DEF OnDead
  <2>2. row[e].status = "DEAD" /\ pa[e] # "REJECTED" /\ pa'[e] = "FAILED"
    BY <1>s, <1>e, <1>g, <2>1 DEF Agrees, IntentInv, ApprovalHasIntent, Approved
  <2>3. Stored(e)'
    BY <1>g, <2>1, <2>2 DEF Stored
  <2>4. Agrees(r)' /\ run'[r].pc \notin InFlightPcs
    BY <1>m, <2>1, <2>2 DEF Agrees, InFlightPcs
  <2>5. \A q \in Runners \ {r} : run[q].act = e => Agrees(q)'
    BY <1>m, <2>1, <2>2 DEF Prompt, Agrees
  <2> QED BY <1>s, <1>m, <2>1, <2>3, <2>4, <2>5, PromptFrame
<1>9. CASE MirrorFailure(r)
  <2>1. /\ feedback' = [feedback EXCEPT ![e] = @ \cup {"FAILED"}] /\ Rest(r)
        /\ UNCHANGED <<row, pa, executed>> /\ run[r].pc = "failed"
    BY <1>9, <1>e DEF MirrorFailure
  <2>2. Stored(e)'
    BY <1>s, <1>e, <1>g, <2>1 DEF Stored, Agrees
  <2>3. \A q \in Runners \ {r} : run[q].act = e => Agrees(q)'
    BY <1>m, <2>1 DEF Prompt, Agrees
  <2>4. Agrees(r)' /\ run'[r].pc \notin InFlightPcs
    BY <1>m, <2>1 DEF Agrees, InFlightPcs
  <2> QED BY <1>s, <1>m, <2>1, <2>2, <2>3, <2>4, PromptFrame
<1> QED
  BY <1>1, <1>2, <1>3, <1>4, <1>5, <1>6, <1>7, <1>8, <1>9 DEF AttemptStep

LEMMA LoopPrompt ==
  ASSUME TypeOK, IntentInv, Prompt, TickStep \/ SweepStep
  PROVE  Prompt'
<1> USE DEF At
<1>s. /\ row \in [Actions -> RowType] /\ pa \in [Actions -> PaStatus]
      /\ feedback \in [Actions -> SUBSET Signals] /\ run \in [Runners -> RunType]
      /\ Drainer \in Runners /\ \A r \in Runners : run[r].pc # "idle" => run[r].act \in Actions
  BY StateTypes DEF Runners
\* A step of no runner, that writes no row or effect.
<1>u. ASSUME UNCHANGED <<row, run, executed>>, \A a \in Actions : Stored(a)',
             \A a \in Actions : pa[a] # "PENDING" => pa'[a] = pa[a]
      PROVE  Prompt'
  <2>1. ASSUME NEW r \in Runners PROVE Agrees(r)'
    <3>1. Agrees(r) /\ (run[r].pc # "idle" => run[r].act \in Actions)
      BY <1>s DEF Prompt
    <3>2. run'[r] = run[r] /\ row' = row /\ executed' = executed
      BY <1>u
    <3> QED BY <1>u, <3>1, <3>2 DEF Agrees, InFlightPcs
  <2>2. Alone'
    BY <1>u DEF Prompt, Alone
  <2> QED BY <1>u, <2>1, <2>2 DEF Prompt
<1>1. CASE Reclaim
  <2>1. UNCHANGED <<run, pa, executed, feedback>>
    BY <1>1 DEF Reclaim
  <2>2. ASSUME NEW a \in Actions
        PROVE  \/ row'[a] = row[a]
               \/ /\ row[a].status = "IN_PROGRESS" /\ row[a].ripe /\ row'[a].status = "QUEUED"
    BY <1>1, <1>s DEF Reclaim, Stale, RowType
  <2>3. ASSUME NEW r \in Runners PROVE Agrees(r)'
    <3>1. Agrees(r) /\ (run[r].pc # "idle" => run[r].act \in Actions)
      BY <1>s DEF Prompt
    <3>2. CASE run[r].pc \in ClaimingPcs
      <4>1. run[r].act \in Actions /\ row'[run[r].act] = row[run[r].act]
        BY <2>2, <3>1, <3>2 DEF Agrees, ClaimingPcs, InFlightPcs, ClaimedRow
      <4> QED BY <2>1, <3>1, <4>1 DEF Agrees
    <3>3. CASE run[r].pc \notin ClaimingPcs
      BY <2>1, <3>3, SilentAgrees
    <3> QED BY <3>2, <3>3
  <2>4. ASSUME NEW a \in Actions PROVE Stored(a)'
    <3>1. Stored(a)
      BY DEF Prompt
    <3> QED BY <2>1, <2>2, <3>1 DEF Stored
  <2>5. Alone'
    BY <2>1 DEF Prompt, Alone
  <2> QED BY <2>3, <2>4, <2>5 DEF Prompt
<1>2. CASE NextRow
  <2>1. PICK b \in batch : Start(Drainer, "ready", b.act, b.no)
    BY <1>2 DEF NextRow
  <2>2. /\ run'[Drainer].pc = "ready" /\ \A q \in Runners \ {Drainer} : run'[q] = run[q]
        /\ UNCHANGED <<row, pa, executed, feedback>>
    BY <1>2, <1>s, <2>1 DEF NextRow, Start
  <2> QED BY <1>s, <2>2, PromptMoves DEF ClaimingPcs, InFlightPcs
<1>3. CASE ResetRow
  BY <1>3, <1>s DEF ResetRow, Prompt, Agrees
<1>4. CASE FindDue \/ WakeSnoozed \/ ExpiryReads
  <2>1. UNCHANGED <<row, run, executed, pa, feedback>>
    BY <1>4 DEF FindDue, WakeSnoozed, ExpiryReads
  <2> QED BY <2>1, <1>u DEF Prompt, Stored
<1>5. CASE ExpiryClaims
  <2>1. UNCHANGED <<row, run, executed, feedback>>
    BY <1>5 DEF ExpiryClaims
  <2>2. \A a \in Actions : pa'[a] = pa[a] \/ (pa[a] = "PENDING" /\ pa'[a] = "REJECTED")
    BY <1>5, <1>s DEF ExpiryClaims
  <2>3. ASSUME NEW a \in Actions PROVE Stored(a)'
    <3>1. Stored(a)
      BY DEF Prompt
    <3> QED BY <2>1, <2>2, <3>1 DEF Stored
  <2> QED BY <1>u, <2>1, <2>2, <2>3
<1>6. CASE ExpiryMirrors
  <2>1. UNCHANGED <<row, run, executed, pa>>
    BY <1>6 DEF ExpiryMirrors
  <2>2. \A a \in Actions : feedback'[a] \ {"IGNORED"} = feedback[a] \ {"IGNORED"}
    BY <1>6, <1>s DEF ExpiryMirrors
  <2>3. ASSUME NEW a \in Actions PROVE Stored(a)'
    <3>1. Stored(a) /\ feedback'[a] \ {"IGNORED"} = feedback[a] \ {"IGNORED"}
      BY <2>2 DEF Prompt
    <3> QED BY <2>1, <3>1 DEF Stored
  <2> QED BY <1>u, <2>1, <2>3
<1> QED
  BY <1>1, <1>2, <1>3, <1>4, <1>5, <1>6 DEF TickStep, SweepStep

\* Of the faults a quiet state may have seen, none makes two attempts meet.
LEMMA FaultPrompt ==
  ASSUME TypeOK, TypeOK', IntentInv, Prompt, Quiet', FaultStep
  PROVE  Prompt'
<1> USE DEF At
<1>s. /\ row \in [Actions -> RowType] /\ pa \in [Actions -> PaStatus]
      /\ executed \in [Actions -> Nat] /\ run \in [Runners -> RunType] /\ RunTypeOK
      /\ Drainer \in Runners /\ Slots \subseteq Runners
      /\ \A r \in Runners : run[r].pc # "idle" => run[r].act \in Actions
  BY StateTypes DEF Runners
<1>f. /\ ~Fault("slow") /\ ~Fault("write") /\ ~Fault("lostack")
  <2>1. ASSUME NEW k, Fault(k) PROVE k \in Faults /\ faults' # 0
    BY <2>1 DEF Fault, TypeOK, GhostTypeOK
  <2> QED BY <2>1 DEF Quiet, Punctual
<1>r. ASSUME NEW r \in Runners, Rest(r), UNCHANGED <<row, pa, executed, feedback>> PROVE Prompt'
  <2>1. run'[r].pc = "idle" /\ \A q \in Runners \ {r} : run'[q] = run[q]
    BY <1>r, <1>s, Moves
  <2> QED BY <1>r, <2>1, PromptMoves DEF ClaimingPcs, InFlightPcs
<1>1. ASSUME NEW s \in Slots, CrashSlot(s) PROVE Prompt'
  BY <1>1, <1>r, <1>s DEF CrashSlot
<1>2. CASE CrashTick
  BY <1>2, <1>r, <1>s DEF CrashTick
<1>3. CASE CrashSweep
  BY <1>3 DEF CrashSweep, Prompt, Alone, Agrees, Stored
<1>4. ASSUME NEW r \in Runners, ToolMisreports(r) PROVE Prompt'
  <2>e. PICK e \in Actions : e = run[r].act
    BY <1>4, <1>s DEF ToolMisreports
  <2>1. PICK class \in {"transient", "permanent"} : Goto(r, class)
    BY <1>4 DEF ToolMisreports
  <2>2. /\ UNCHANGED <<row, pa, feedback>> /\ run[r].pc = "running"
        /\ executed' = [executed EXCEPT ![e] = @ + 1]
    BY <1>4, <2>e DEF ToolMisreports
  <2>3. /\ run'[r].pc = class /\ run'[r].act = e /\ run'[r].no = run[r].no
        /\ \A q \in Runners \ {r} : run'[q] = run[q]
    BY <1>s, <2>e, <2>1, Moves, GotoKeeps
  <2>4. Agrees(r)'
    <3>1. Agrees(r)
      BY DEF Prompt
    <3> QED BY <2>e, <2>2, <2>3, <3>1 DEF Agrees, InFlightPcs
  <2>5. Stored(e)'
    <3>1. Stored(e) /\ row[e] = ClaimedRow(run[r].no)
      BY <2>e, <2>2 DEF Prompt, Agrees, InFlightPcs
    <3>2. row[e].status = "IN_PROGRESS"
      BY <3>1 DEF ClaimedRow
    <3> QED BY <2>2, <3>1, <3>2 DEF Stored
  <2>6. \A q \in Runners \ {r} : run[q].act = e => run[q].pc \notin ClaimingPcs /\ Agrees(q)'
    BY <2>e, <2>2, <2>3, OthersAside, SilentAgrees DEF InFlightPcs
  <2>7. \A q \in Runners \ {r} : run[q].act = e => run[q].pc \notin InFlightPcs
    BY <2>6 DEF ClaimingPcs
  <2> QED BY <1>s, <2>2, <2>3, <2>4, <2>5, <2>6, <2>7, PromptFrame
<1> QED
  BY <1>1, <1>2, <1>3, <1>4, <1>f DEF FaultStep, MirrorApprovalFails, ResetFails, ClaimFails,
     CompletedWriteFails, FailureWriteFails, SideEffectsFail, SlowAttempt, FailingWrite

LEMMA NextPrompt ==
  ASSUME TypeOK, TypeOK', IntentInv, PromptInv, [Next]_vars
  PROVE  PromptInv'
<1> SUFFICES ASSUME Quiet' PROVE Prompt'
  BY DEF PromptInv
<1>q. Quiet
  <2>1. FaultStep => faults' = faults + 1
    BY DEF FaultStep, CrashSlot, MirrorApprovalFails, CrashTick, CrashSweep, ResetFails,
       ToolMisreports, ClaimFails, CompletedWriteFails, FailureWriteFails, SideEffectsFail,
       SlowAttempt, FailingWrite, Fault
  <2>2. FaultStep \/ faults' = faults
    BY DEF Next, vars, ReadPending, RequestStep, CommitApproval, MirrorApproval, ReadRow,
       CommitReject, MirrorReject, WriteSnooze, AttemptStep, Claim, ToolSucceeds, ToolFails,
       WriteCompleted, WriteFailure, OnCompleted, OnDead, MirrorFailure, TickStep, Reclaim,
       FindDue, NextRow, WakeSnoozed, ResetRow, SweepStep, ExpiryReads, ExpiryClaims,
       ExpiryMirrors, ClockPasses
  <2>3. faults \in Nat
    BY DEF TypeOK, GhostTypeOK
  <2> QED BY <2>1, <2>2, <2>3 DEF Quiet
<1>p. Prompt
  BY <1>q DEF PromptInv
<1>s. run \in [Runners -> RunType] /\ row \in [Actions -> RowType]
  BY StateTypes
<1>1. ASSUME NEW s \in Slots, NEW a \in Actions, NEW n \in {"approving", "rejecting", "snoozing"},
             ReadPending(s, a, n)
      PROVE  Prompt'
  <2>1. /\ s \in Runners /\ run'[s].pc = n /\ \A q \in Runners \ {s} : run'[q] = run[q]
        /\ UNCHANGED <<row, pa, executed, feedback>>
    BY <1>1, <1>s DEF ReadPending, Start, Runners
  <2> QED BY <1>p, <2>1, PromptMoves DEF ClaimingPcs, InFlightPcs
<1>2. ASSUME NEW a \in Actions, ClockPasses(a) PROVE Prompt'
  <2>1. /\ UNCHANGED <<run, pa, executed, feedback>> /\ row' = [row EXCEPT ![a].ripe = TRUE]
        /\ row[a].status = "QUEUED" \/ InFlight(a) = {}
    BY <1>2 DEF ClockPasses
  <2>2. \A b \in Actions : row'[b].status = row[b].status /\ (b # a => row'[b] = row[b])
    BY <1>s, <2>1 DEF RowType
  <2>3. ASSUME NEW r \in Runners PROVE Agrees(r)'
    <3>1. Agrees(r) /\ (run[r].pc # "idle" => run[r].act \in Actions)
      BY <1>p, StateTypes DEF Prompt
    <3>2. run[r].pc \in InFlightPcs => run[r].act # a
      BY <1>p, <2>1, <3>1 DEF InFlight, Agrees, ClaimedRow
    <3> QED BY <2>1, <2>2, <3>1, <3>2 DEF Agrees, InFlightPcs
  <2>4. ASSUME NEW b \in Actions PROVE Stored(b)'
    <3>1. Stored(b)
      BY <1>p DEF Prompt
    <3> QED BY <2>1, <2>2, <3>1 DEF Stored
  <2>5. Alone'
    BY <1>p, <2>1 DEF Prompt, Alone
  <2> QED BY <2>3, <2>4, <2>5 DEF Prompt
<1>3. CASE UNCHANGED vars
  BY <1>3, <1>p DEF vars, Prompt, Alone, Agrees, Stored
<1> QED
  BY <1>1, <1>2, <1>3, <1>p, RequestPrompt, AttemptPrompt, LoopPrompt, FaultPrompt DEF Next

LEMMA PromptCorrect == Spec => []PromptInv
<1>1. Init => PromptInv
  BY OutboxAssumption DEF Init, PromptInv, Prompt, Alone, Agrees, Stored, IdleRun, InFlightPcs
<1> QED
  BY <1>1, NextPrompt, TypeCorrect, IntentCorrect, PTL DEF Spec

\* Crashes and misreporting tools alone never bring two attempts of an action
\* to run at the same time, in the inline handler and in the worker.
THEOREM NoAttemptsMeet == ASSUME Punctual PROVE Spec => []OneAttemptAtATime
<1>1. PromptInv => OneAttemptAtATime
  <2> SUFFICES ASSUME PromptInv, NEW a \in Actions PROVE Cardinality(InFlight(a)) <= 1
    BY DEF OneAttemptAtATime
  <2>1. CASE InFlight(a) = {}
    BY <2>1, FS_EmptySet
  <2>2. CASE InFlight(a) # {}
    <3>1. PICK r \in InFlight(a) : TRUE
      BY <2>2
    <3>2. InFlight(a) = {r}
      BY <3>1 DEF InFlight, PromptInv, Quiet, Prompt, Alone
    <3>3. Cardinality({r}) = 1
      BY FS_Singleton
    <3> QED BY <3>2, <3>3
  <2> QED BY <2>1, <2>2
<1> QED BY <1>1, PromptCorrect, PTL

\* Under the same faults an action's feedback never holds two of the verdicts
\* APPROVED, FAILED and REJECTED.
THEOREM VerdictIsSingle == ASSUME Punctual PROVE Spec => []OneVerdict
<1>1. TypeOK /\ IntentInv /\ PromptInv => OneVerdict
  <2> SUFFICES ASSUME TypeOK, IntentInv, PromptInv, NEW a \in Actions
               PROVE  Cardinality(feedback[a] \ {"IGNORED"}) <= 1
    BY DEF OneVerdict
  <2>1. /\ Stored(a) /\ feedback[a] \subseteq Signals
        /\ pa[a] = "REJECTED" => row[a].status = "NONE"
    BY DEF TypeOK, QueueTypeOK, PromptInv, Quiet, Prompt, IntentInv, ApprovalHasIntent, Approved
  <2>2. PICK v : feedback[a] \ {"IGNORED"} \subseteq {v}
    BY <2>1 DEF Stored, Signals
  <2>3. feedback[a] \ {"IGNORED"} = {} \/ feedback[a] \ {"IGNORED"} = {v}
    BY <2>2
  <2>4. Cardinality({}) = 0 /\ Cardinality({v}) = 1
    BY FS_EmptySet, FS_Singleton
  <2> QED BY <2>3, <2>4
<1> QED BY <1>1, TypeCorrect, IntentCorrect, PromptCorrect, PTL

-----------------------------------------------------------------------------
(***************************************************************************)
(* The safety half of the refinement: every step of a punctual outbox      *)
(* decides, expires, performs or settles an action as ActionPromise lets   *)
(* it, or changes nothing a user could see.  PromptInv is what makes the   *)
(* outcome a writer stores by id land on a row that is still owed one.     *)
(***************************************************************************)
DecisionOf(a) == CASE pa[a] = "PENDING"  -> "proposed"
                   [] pa[a] = "REJECTED" -> "declined"
                   [] OTHER              -> "approved"
VerdictOf(a) == CASE row[a].status = "COMPLETED" -> "done"
                  [] row[a].status = "DEAD"      -> "failed"
                  [] OTHER                       -> "open"

PromiseStep == [Promise!Next]_(Promise!vars)

LEMMA StutterStep ==
  ASSUME UNCHANGED executed,
         \A a \in Actions : DecisionOf(a)' = DecisionOf(a) /\ VerdictOf(a)' = VerdictOf(a)
  PROVE  PromiseStep
  BY DEF PromiseStep, Promise!vars, DecisionOf, VerdictOf

LEMMA DecideStep ==
  ASSUME UNCHANGED executed, NEW e \in Actions, pa[e] = "PENDING",
         pa'[e] \in {"EXECUTED", "REJECTED"}, \A a \in Actions \ {e} : pa'[a] = pa[a],
         \A a \in Actions : VerdictOf(a)' = VerdictOf(a)
  PROVE  PromiseStep
<1>1. /\ DecisionOf(e) = "proposed" /\ DecisionOf(e)' \in {"approved", "declined"}
      /\ \A a \in Actions \ {e} : DecisionOf(a)' = DecisionOf(a)
  BY DEF DecisionOf
<1>2. Promise!Decide(e)
  BY <1>1 DEF Promise!Decide, DecisionOf, VerdictOf
<1> QED BY <1>2 DEF PromiseStep, Promise!Next

LEMMA ExpireStep ==
  ASSUME UNCHANGED executed, NEW E \in SUBSET {a \in Actions : pa[a] = "PENDING"},
         pa' = [a \in Actions |-> IF a \in E THEN "REJECTED" ELSE pa[a]],
         \A a \in Actions : VerdictOf(a)' = VerdictOf(a)
  PROVE  PromiseStep
<1>1. \A a \in Actions : DecisionOf(a)' = IF a \in E THEN "declined" ELSE DecisionOf(a)
  BY DEF DecisionOf
<1>2. E \in SUBSET {a \in Actions : DecisionOf(a) = "proposed"}
  BY DEF DecisionOf
<1>3. Promise!Expire
  BY <1>1, <1>2 DEF Promise!Expire, DecisionOf, VerdictOf
<1> QED BY <1>3 DEF PromiseStep, Promise!Next

LEMMA PerformStep ==
  ASSUME NEW e \in Actions, Approved(e), row[e].status = "IN_PROGRESS",
         executed' = [executed EXCEPT ![e] = @ + 1], UNCHANGED <<pa, row>>
  PROVE  PromiseStep
<1>1. DecisionOf(e) = "approved" /\ VerdictOf(e) = "open"
  BY DEF DecisionOf, VerdictOf, Approved
<1>2. \A a \in Actions : DecisionOf(a)' = DecisionOf(a) /\ VerdictOf(a)' = VerdictOf(a)
  BY DEF DecisionOf, VerdictOf
<1>3. Promise!Perform(e)
  BY <1>1, <1>2 DEF Promise!Perform, Promise!Owed, DecisionOf, VerdictOf
<1> QED BY <1>3 DEF PromiseStep, Promise!Next

LEMMA SettleStep ==
  ASSUME UNCHANGED <<pa, executed>>, NEW e \in Actions, Approved(e), row[e].status = "IN_PROGRESS",
         row'[e].status \in {"COMPLETED", "DEAD"},
         row'[e].status = "COMPLETED" => executed[e] > 0,
         \A a \in Actions \ {e} : row'[a] = row[a]
  PROVE  PromiseStep
<1>1. /\ DecisionOf(e) = "approved" /\ VerdictOf(e) = "open"
      /\ VerdictOf(e)' \in {"done", "failed"} /\ (VerdictOf(e)' = "done" => executed[e] > 0)
      /\ \A a \in Actions \ {e} : VerdictOf(a)' = VerdictOf(a)
      /\ \A a \in Actions : DecisionOf(a)' = DecisionOf(a)
  BY DEF DecisionOf, VerdictOf, Approved
<1>2. Promise!Settle(e)
  BY <1>1 DEF Promise!Settle, Promise!Owed, DecisionOf, VerdictOf
<1> QED BY <1>2 DEF PromiseStep, Promise!Next

\* A claim in flight holds a row in progress of an approved action.
LEMMA ClaimHolds ==
  ASSUME TypeOK, IntentInv, Prompt, NEW r \in Runners, run[r].pc \in InFlightPcs
  PROVE  /\ run[r].act \in Actions /\ Approved(run[r].act)
         /\ row[run[r].act].status = "IN_PROGRESS"
         /\ run[r].pc = "ok" => executed[run[r].act] > 0
<1>1. Agrees(r) /\ run[r].act \in Actions
  BY StateTypes DEF Prompt, InFlightPcs
<1>2. row[run[r].act].status = "IN_PROGRESS"
  BY <1>1 DEF Agrees, ClaimedRow
<1> QED BY <1>1, <1>2 DEF Agrees, IntentInv, ApprovalHasIntent

LEMMA RequestKeepsPromise ==
  ASSUME TypeOK, IntentInv, NEW s \in Slots, RequestStep(s)
  PROVE  PromiseStep
<1> USE DEF At
<1>s. pa \in [Actions -> PaStatus] /\ row \in [Actions -> RowType] /\ s \in Runners
  BY StateTypes DEF Runners
<1>e. PICK e \in Actions : e = run[s].act
  BY <1>s, StateTypes DEF RequestStep, CommitApproval, MirrorApproval, ReadRow, CommitReject,
     MirrorReject, WriteSnooze
<1>1. CASE CommitApproval(s) /\ StillPending(e)
  <2>1. /\ pa' = [pa EXCEPT ![e] = "EXECUTED"] /\ pa[e] = "PENDING" /\ UNCHANGED executed
        /\ row' = [row EXCEPT ![e] = [status |-> "QUEUED", attempts |-> 0, ripe |-> TRUE]]
    BY <1>1, <1>e DEF CommitApproval, StillPending
  <2>2. row[e].status = "NONE" /\ row'[e].status = "QUEUED"
    BY <1>s, <2>1 DEF IntentInv, ApprovalHasIntent, Approved
  <2>3. \A a \in Actions : VerdictOf(a)' = VerdictOf(a)
    BY <1>s, <2>1, <2>2 DEF VerdictOf
  <2> QED BY <1>s, <2>1, <2>3, DecideStep
<1>2. CASE CommitReject(s) /\ StillPending(e)
  <2>1. /\ pa' = [pa EXCEPT ![e] = "REJECTED"] /\ pa[e] = "PENDING"
        /\ UNCHANGED <<row, executed>>
    BY <1>2, <1>e DEF CommitReject, StillPending
  <2>2. \A a \in Actions : VerdictOf(a)' = VerdictOf(a)
    BY <2>1 DEF VerdictOf
  <2> QED BY <1>s, <2>1, <2>2, DecideStep
<1>3. CASE UNCHANGED <<pa, row, executed>>
  BY <1>3, StutterStep DEF DecisionOf, VerdictOf
<1> QED
  BY <1>e, <1>1, <1>2, <1>3 DEF RequestStep, CommitApproval, MirrorApproval, ReadRow,
     CommitReject, MirrorReject, WriteSnooze

LEMMA AttemptKeepsPromise ==
  ASSUME TypeOK, IntentInv, Prompt, NEW r \in Runners, AttemptStep(r)
  PROVE  PromiseStep
<1> USE DEF At
<1>s. pa \in [Actions -> PaStatus] /\ row \in [Actions -> RowType]
  BY StateTypes
<1>e. PICK e \in Actions : e = run[r].act
  BY StateTypes DEF AttemptStep, Claim, ToolSucceeds, ToolFails, WriteCompleted, WriteFailure,
     OnCompleted, OnDead, MirrorFailure
<1>1. CASE Claim(r) /\ Claimable(e)
  <2>1. /\ row' = [row EXCEPT ![e] = ClaimedRow(run[r].no)] /\ UNCHANGED <<pa, executed>>
        /\ row[e].status = "QUEUED"
    BY <1>1, <1>e DEF Claim, Claimable
  <2>2. row'[e].status = "IN_PROGRESS"
    BY <1>s, <2>1 DEF ClaimedRow
  <2>3. \A a \in Actions : VerdictOf(a)' = VerdictOf(a) /\ DecisionOf(a)' = DecisionOf(a)
    BY <1>s, <2>1, <2>2 DEF VerdictOf, DecisionOf
  <2> QED BY <2>1, <2>3, StutterStep
<1>2. CASE ToolSucceeds(r)
  <2>1. /\ UNCHANGED <<row, pa>> /\ executed' = [executed EXCEPT ![e] = @ + 1]
        /\ run[r].pc \in InFlightPcs
    BY <1>2, <1>e DEF ToolSucceeds, InFlightPcs
  <2> QED BY <1>e, <2>1, ClaimHolds, PerformStep
<1>3. CASE WriteCompleted(r)
  <2>1. /\ run[r].pc = "ok" /\ run[r].pc \in InFlightPcs /\ UNCHANGED <<pa, executed>>
        /\ row' = [row EXCEPT ![e] = CompletedRow(run[r].no)]
    BY <1>3, <1>e DEF WriteCompleted, InFlightPcs
  <2>2. row'[e].status = "COMPLETED" /\ \A a \in Actions \ {e} : row'[a] = row[a]
    BY <1>s, <2>1 DEF CompletedRow
  <2> QED BY <1>e, <2>1, <2>2, ClaimHolds, SettleStep
<1>4. CASE WriteFailure(r)
  <2>1. /\ run[r].pc \in InFlightPcs /\ UNCHANGED <<pa, executed>>
        /\ row' = [row EXCEPT ![e] = FailedRow(run[r].pc, run[r].no)]
    BY <1>4, <1>e DEF WriteFailure, InFlightPcs
  <2>2. row'[e].status \in {"QUEUED", "DEAD"} /\ \A a \in Actions \ {e} : row'[a] = row[a]
    BY <1>s, <2>1 DEF FailedRow
  <2>3. CASE row'[e].status = "DEAD"
    BY <1>e, <2>1, <2>2, <2>3, ClaimHolds, SettleStep
  <2>4. CASE row'[e].status = "QUEUED"
    <3>1. row[e].status = "IN_PROGRESS"
      BY <1>e, <2>1, ClaimHolds
    <3>2. \A a \in Actions : VerdictOf(a)' = VerdictOf(a) /\ DecisionOf(a)' = DecisionOf(a)
      BY <2>1, <2>2, <2>4, <3>1 DEF VerdictOf, DecisionOf
    <3> QED BY <2>1, <3>2, StutterStep
  <2> QED BY <2>2, <2>3, <2>4
<1>5. CASE OnDead(r)
  <2>1. pa' = [pa EXCEPT ![e] = "FAILED"] /\ run[r].pc = "dead" /\ UNCHANGED <<row, executed>>
    BY <1>5, <1>e DEF OnDead
  <2>2. Agrees(r) /\ row[e].status = "DEAD"
    BY <1>e, <2>1 DEF Prompt, Agrees
  <2>3. Approved(e)
    BY <2>2 DEF IntentInv, ApprovalHasIntent
  <2>4. \A a \in Actions : VerdictOf(a)' = VerdictOf(a) /\ DecisionOf(a)' = DecisionOf(a)
    BY <1>s, <2>1, <2>3 DEF VerdictOf, DecisionOf, Approved
  <2> QED BY <2>1, <2>4, StutterStep
<1>6. CASE UNCHANGED <<pa, row, executed>>
  BY <1>6, StutterStep DEF DecisionOf, VerdictOf
<1> QED
  BY <1>e, <1>1, <1>2, <1>3, <1>4, <1>5, <1>6 DEF AttemptStep, Claim, ToolFails, OnCompleted,
     MirrorFailure

LEMMA LoopKeepsPromise ==
  ASSUME TypeOK, Prompt, TickStep \/ SweepStep
  PROVE  PromiseStep
<1> USE DEF At
<1>s. row \in [Actions -> RowType] /\ Drainer \in Runners
  BY StateTypes DEF Runners
<1>1. CASE Reclaim
  <2>1. \A a \in Actions : \/ row'[a] = row[a]
                           \/ row[a].status = "IN_PROGRESS" /\ row'[a].status = "QUEUED"
    BY <1>1, <1>s DEF Reclaim, Stale, RowType
  <2>2. UNCHANGED <<pa, executed>>
    BY <1>1 DEF Reclaim
  <2>3. \A a \in Actions : VerdictOf(a)' = VerdictOf(a) /\ DecisionOf(a)' = DecisionOf(a)
    BY <2>1, <2>2 DEF VerdictOf, DecisionOf
  <2> QED BY <2>2, <2>3, StutterStep
<1>2. CASE ResetRow
  BY <1>2, <1>s DEF ResetRow, Prompt, Agrees
<1>3. CASE ExpiryClaims
  <2>1. PICK E \in SUBSET {a \in Actions : pa[a] = "PENDING"} :
          pa' = [a \in Actions |-> IF a \in E THEN "REJECTED" ELSE pa[a]]
    <3>1. sweep.rows \subseteq Actions
      BY DEF TypeOK, LoopTypeOK
    <3> QED BY <1>3, <3>1 DEF ExpiryClaims
  <2>2. UNCHANGED <<row, executed>>
    BY <1>3 DEF ExpiryClaims
  <2>3. \A a \in Actions : VerdictOf(a)' = VerdictOf(a)
    BY <2>2 DEF VerdictOf
  <2> QED BY <2>1, <2>2, <2>3, ExpireStep
<1>4. CASE UNCHANGED <<pa, row, executed>>
  BY <1>4, StutterStep DEF DecisionOf, VerdictOf
<1> QED
  BY <1>1, <1>2, <1>3, <1>4 DEF TickStep, SweepStep, FindDue, NextRow, WakeSnoozed, ExpiryReads,
     ExpiryMirrors

LEMMA FaultKeepsPromise ==
  ASSUME Punctual, TypeOK, IntentInv, Prompt, FaultStep
  PROVE  PromiseStep
<1> USE DEF At
<1>1. ASSUME NEW r \in Runners, ToolMisreports(r) PROVE PromiseStep
  <2>1. /\ run[r].pc \in InFlightPcs /\ UNCHANGED <<row, pa>>
        /\ executed' = [executed EXCEPT ![run[r].act] = @ + 1]
    BY <1>1 DEF ToolMisreports, InFlightPcs
  <2> QED BY <2>1, ClaimHolds, PerformStep
<1>2. CASE UNCHANGED <<pa, row, executed>>
  BY <1>2, StutterStep DEF DecisionOf, VerdictOf
<1> QED
  BY <1>1, <1>2 DEF FaultStep, CrashSlot, CrashTick, CrashSweep, MirrorApprovalFails, ResetFails,
     ClaimFails, CompletedWriteFails, FailureWriteFails, SideEffectsFail, SlowAttempt,
     FailingWrite, Fault, Punctual

LEMMA NextKeepsPromise ==
  ASSUME Punctual, TypeOK, IntentInv, PromptInv, [Next]_vars
  PROVE  PromiseStep
<1>p. Prompt
  BY DEF PromptInv, Quiet
<1>1. ASSUME NEW a \in Actions, ClockPasses(a) PROVE PromiseStep
  <2>1. /\ UNCHANGED <<pa, executed>> /\ \A b \in Actions : row'[b].status = row[b].status
    BY <1>1, StateTypes DEF ClockPasses, RowType
  <2>2. \A b \in Actions : VerdictOf(b)' = VerdictOf(b) /\ DecisionOf(b)' = DecisionOf(b)
    BY <2>1 DEF VerdictOf, DecisionOf
  <2> QED BY <2>1, <2>2, StutterStep
<1>2. CASE UNCHANGED <<pa, row, executed>>
  BY <1>2, StutterStep DEF DecisionOf, VerdictOf
<1> QED
  BY <1>p, <1>1, <1>2, RequestKeepsPromise, AttemptKeepsPromise, LoopKeepsPromise,
     FaultKeepsPromise DEF Next, vars, ReadPending

\* While attempts end within the stale window and statements are answered, the
\* handlers, the worker and the sweep do nothing that ActionPromise forbids:
\* one decision, effects only between the approval and the outcome, one final
\* outcome, and "done" only for what took effect.
THEOREM ImplementsPromise == ASSUME Punctual PROVE Spec => Promise!Spec
<1>1. Init => Promise!Init
  BY DEF Init, Promise!Init
<1>2. TypeOK /\ IntentInv /\ PromptInv /\ [Next]_vars => [Promise!Next]_(Promise!vars)
  BY NextKeepsPromise DEF PromiseStep
<1> QED BY <1>1, <1>2, TypeCorrect, IntentCorrect, PromptCorrect, PTL DEF Spec, Promise!Spec

-----------------------------------------------------------------------------
(***************************************************************************)
(* OutcomeIsTrue: until the first fault an effect is counted by the row or *)
(* by the attempt that holds it, and a settled row is told by the feedback *)
(* or by the runner that is about to.                                      *)
(***************************************************************************)
Holds(r, a) == run[r].act = a /\ run[r].pc \in InFlightPcs

Counted(a) ==
    /\ row[a].status \in {"NONE", "QUEUED", "DEAD"} => executed[a] = 0
    /\ row[a].status = "COMPLETED" => executed[a] = 1
    /\ row[a].status = "IN_PROGRESS" => \E r \in Runners : Holds(r, a)
    /\ \A r \in Runners : Holds(r, a) => executed[a] = IF run[r].pc = "ok" THEN 1 ELSE 0

Told(a) ==
    /\ row[a].status = "COMPLETED" =>
         \/ "APPROVED" \in feedback[a]
         \/ \E r \in Runners : run[r].act = a /\ run[r].pc = "completed"
    /\ row[a].status = "DEAD" =>
         \/ "FAILED" \in feedback[a] /\ pa[a] = "FAILED"
         \/ \E r \in Runners : run[r].act = a /\ run[r].pc \in {"dead", "failed"}

Calm(a) == Counted(a) /\ Told(a)

CalmInv == faults = 0 => \A a \in Actions : Calm(a)

\* A step of one runner on one action leaves the others as they were.
LEMMA CalmFrame ==
  ASSUME TypeOK, NEW r \in Runners, NEW e \in Actions, run[r].act = e,
         \A q \in Runners \ {r} : run'[q] = run[q],
         run'[r].act = e \/ run'[r].pc = "idle",
         \A a \in Actions \ {e} : /\ row'[a] = row[a] /\ executed'[a] = executed[a]
                                  /\ pa'[a] = pa[a] /\ feedback'[a] = feedback[a],
         \A a \in Actions : Calm(a), Calm(e)'
  PROVE  \A a \in Actions : Calm(a)'
<1> SUFFICES ASSUME NEW a \in Actions \ {e} PROVE Calm(a)'
  OBVIOUS
<1>1. \A q \in Runners : run[q].act = a => q # r /\ run'[q] = run[q]
  OBVIOUS
<1>2. \A q \in Runners : run'[q].act = a /\ run'[q].pc # "idle" => q # r /\ run'[q] = run[q]
  OBVIOUS
<1>3. Counted(a) /\ Told(a)
  BY DEF Calm
<1>4. Counted(a)'
  BY <1>1, <1>2, <1>3 DEF Counted, Holds, InFlightPcs
<1>5. Told(a)'
  BY <1>1, <1>2, <1>3 DEF Told
<1> QED BY <1>4, <1>5 DEF Calm

\* A step that claims nothing, and writes at most decisions and feedback.
LEMMA CalmMoves ==
  ASSUME \A a \in Actions : Calm(a),
         \A q \in Runners : \/ run'[q] = run[q]
                            \/ run[q].pc \notin ClaimingPcs /\ run'[q].pc \notin ClaimingPcs,
         \A a \in Actions : /\ row'[a].status = row[a].status /\ executed'[a] = executed[a]
                            /\ pa[a] = "FAILED" => pa'[a] = "FAILED"
                            /\ feedback[a] \subseteq feedback'[a]
  PROVE  \A a \in Actions : Calm(a)'
<1> SUFFICES ASSUME NEW a \in Actions PROVE Calm(a)'
  OBVIOUS
<1>1. Counted(a) /\ Told(a)
  BY DEF Calm
<1>2. \A q \in Runners : \/ run'[q] = run[q]
                         \/ /\ run[q].pc \notin InFlightPcs \cup {"completed", "dead", "failed"}
                            /\ run'[q].pc \notin InFlightPcs \cup {"completed", "dead", "failed"}
  BY DEF ClaimingPcs
<1>3. Counted(a)'
  BY <1>1, <1>2 DEF Counted, Holds
<1>4. Told(a)'
  BY <1>1, <1>2 DEF Told
<1> QED BY <1>3, <1>4 DEF Calm

LEMMA RequestCalm ==
  ASSUME TypeOK, IntentInv, Prompt, \A a \in Actions : Calm(a), NEW s \in Slots, RequestStep(s)
  PROVE  \A a \in Actions : Calm(a)'
<1> USE DEF At
<1>t. s \in Runners /\ run[s].pc \in RequestPcs /\ run[s].pc # "idle"
  BY DEF Runners, RequestStep, CommitApproval, MirrorApproval, ReadRow, CommitReject,
     MirrorReject, WriteSnooze, RequestPcs
<1>e. PICK e \in Actions : e = run[s].act
  BY <1>t, StateTypes
<1>m. /\ \A p : Goto(s, p) => /\ run'[s].pc = p /\ run'[s].act = e
                              /\ \A q \in Runners \ {s} : run'[q] = run[q]
      /\ Rest(s) => run'[s].pc = "idle" /\ \A q \in Runners \ {s} : run'[q] = run[q]
  BY <1>t, <1>e, Moves, StateTypes
<1>s. /\ row \in [Actions -> RowType] /\ pa \in [Actions -> PaStatus]
      /\ feedback \in [Actions -> SUBSET Signals] /\ run \in [Runners -> RunType]
  BY StateTypes
<1>c. (RequestPcs \cup {"idle", "ready"}) \cap ClaimingPcs = {}
  BY DEF RequestPcs, ClaimingPcs, InFlightPcs
<1>1. CASE CommitApproval(s) /\ StillPending(e)
  <2>1. /\ pa' = [pa EXCEPT ![e] = "EXECUTED"] /\ Goto(s, "approved") /\ pa[e] = "PENDING"
        /\ row' = [row EXCEPT ![e] = [status |-> "QUEUED", attempts |-> 0, ripe |-> TRUE]]
        /\ UNCHANGED <<executed, feedback>>
    BY <1>1, <1>e DEF CommitApproval, StillPending
  <2>2. row[e].status = "NONE" /\ row'[e].status = "QUEUED"
    BY <1>s, <2>1 DEF IntentInv, ApprovalHasIntent, Approved
  <2>3. \A q \in Runners : run[q].act = e => run[q].pc \notin InFlightPcs
    BY <2>2, OthersSilent DEF ClaimingPcs
  <2>4. \A q \in Runners : ~Holds(q, e)'
    BY <1>m, <2>1, <2>3 DEF Holds, InFlightPcs
  <2>5. Calm(e)'
    BY <2>1, <2>2, <2>4 DEF Calm, Counted, Told
  <2> QED BY <1>t, <1>e, <1>s, <1>m, <2>1, <2>5, CalmFrame
<1>2. CASE ~(CommitApproval(s) /\ StillPending(e))
  <2>1. /\ row' = row /\ executed' = executed
        /\ \A a \in Actions : /\ pa[a] = "FAILED" => pa'[a] = "FAILED"
                              /\ feedback[a] \subseteq feedback'[a]
    BY <1>2, <1>s, <1>e DEF RequestStep, CommitApproval, MirrorApproval, ReadRow, CommitReject,
       MirrorReject, WriteSnooze, StillPending
  <2>2. /\ \A q \in Runners \ {s} : run'[q] = run[q]
        /\ run'[s].pc \in RequestPcs \cup {"idle", "ready"}
    BY <1>2, <1>s, <1>t, <1>e, <1>m DEF RequestStep, CommitApproval, MirrorApproval, ReadRow,
       CommitReject, MirrorReject, WriteSnooze, Start, RequestPcs
  <2> QED BY <1>c, <1>t, <2>1, <2>2, CalmMoves
<1> QED BY <1>1, <1>2

LEMMA AttemptCalm ==
  ASSUME TypeOK, IntentInv, Prompt, \A a \in Actions : Calm(a), NEW r \in Runners, AttemptStep(r)
  PROVE  \A a \in Actions : Calm(a)'
<1> USE DEF At
<1>t. run[r].pc # "idle"
  BY DEF AttemptStep, Claim, ToolSucceeds, ToolFails, WriteCompleted, WriteFailure,
     OnCompleted, OnDead, MirrorFailure
<1>e. PICK e \in Actions : e = run[r].act
  BY <1>t, StateTypes
<1>m. /\ \A p : Goto(r, p) => /\ run'[r].pc = p /\ run'[r].act = e
                              /\ \A q \in Runners \ {r} : run'[q] = run[q]
      /\ Rest(r) => run'[r].pc = "idle" /\ \A q \in Runners \ {r} : run'[q] = run[q]
  BY <1>t, <1>e, Moves, StateTypes
<1>s. /\ row \in [Actions -> RowType] /\ pa \in [Actions -> PaStatus]
      /\ executed \in [Actions -> Nat] /\ feedback \in [Actions -> SUBSET Signals]
      /\ run \in [Runners -> RunType]
  BY StateTypes
<1>g. Agrees(r) /\ Counted(e) /\ Told(e)
  BY DEF Prompt, Calm
\* The holder of the one claim on e, and what its pc says of the effect.
<1>h. ASSUME run[r].pc \in InFlightPcs
      PROVE  /\ executed[e] = IF run[r].pc = "ok" THEN 1 ELSE 0
             /\ \A q \in Runners \ {r} : ~Holds(q, e)
             /\ row[e].status = "IN_PROGRESS"
  <2>1. executed[e] = IF run[r].pc = "ok" THEN 1 ELSE 0
    BY <1>h, <1>e, <1>g DEF Counted, Holds
  <2>2. \A q \in Runners \ {r} : ~Holds(q, e)
    BY <1>h, <1>e DEF Prompt, Alone, Holds
  <2> QED BY <1>h, <1>e, <2>1, <2>2, ClaimHolds
<1>1. CASE Claim(r) /\ Claimable(e)
  <2>1. /\ Goto(r, "running") /\ row' = [row EXCEPT ![e] = ClaimedRow(run[r].no)]
        /\ UNCHANGED <<pa, executed, feedback>> /\ row[e].status = "QUEUED"
    BY <1>1, <1>e DEF Claim, Claimable
  <2>2. row'[e].status = "IN_PROGRESS"
    BY <1>s, <2>1 DEF ClaimedRow
  <2>3. \A q \in Runners \ {r} : ~Holds(q, e)'
    BY <1>m, <2>1, OthersSilent DEF Holds, ClaimingPcs
  <2>4. executed'[e] = 0 /\ run'[r].pc = "running" /\ run'[r].act = e
    BY <1>g, <1>m, <2>1 DEF Counted
  <2>5. Calm(e)'
    BY <2>2, <2>3, <2>4 DEF Calm, Counted, Told, Holds, InFlightPcs
  <2> QED BY <1>e, <1>s, <1>m, <2>1, <2>5, CalmFrame
<1>2. CASE Claim(r) /\ ~Claimable(e)
  <2>1. /\ Rest(r) /\ UNCHANGED <<row, pa, executed, feedback>> /\ run[r].pc = "ready"
    BY <1>2, <1>e DEF Claim
  <2> QED BY <1>m, <2>1, CalmMoves DEF ClaimingPcs, InFlightPcs
<1>3. CASE ToolSucceeds(r)
  <2>1. /\ Goto(r, "ok") /\ run[r].pc = "running" /\ UNCHANGED <<row, pa, feedback>>
        /\ executed' = [executed EXCEPT ![e] = @ + 1]
    BY <1>3, <1>e DEF ToolSucceeds
  <2>2. executed'[e] = 1 /\ row'[e].status = "IN_PROGRESS"
    BY <1>s, <1>h, <2>1 DEF InFlightPcs
  <2>3. \A q \in Runners \ {r} : ~Holds(q, e)'
    BY <1>h, <1>m, <2>1 DEF Holds, InFlightPcs
  <2>4. Calm(e)'
    BY <1>m, <2>1, <2>2, <2>3 DEF Calm, Counted, Told, Holds, InFlightPcs
  <2> QED BY <1>e, <1>s, <1>m, <2>1, <2>4, CalmFrame
<1>4. CASE ToolFails(r)
  <2>1. PICK class \in {"transient", "permanent"} : Goto(r, class)
    BY <1>4 DEF ToolFails
  <2>2. UNCHANGED <<row, pa, executed, feedback>> /\ run[r].pc = "running"
    BY <1>4 DEF ToolFails
  <2>3. executed'[e] = 0 /\ row'[e].status = "IN_PROGRESS"
    BY <1>h, <2>2 DEF InFlightPcs
  <2>4. \A q \in Runners \ {r} : ~Holds(q, e)'
    BY <1>h, <1>m, <2>1, <2>2 DEF Holds, InFlightPcs
  <2>5. Calm(e)'
    BY <1>m, <2>1, <2>3, <2>4 DEF Calm, Counted, Told, Holds, InFlightPcs
  <2> QED BY <1>e, <1>m, <2>1, <2>2, <2>5, CalmFrame
<1>5. CASE WriteCompleted(r)
  <2>1. /\ Goto(r, "completed") /\ run[r].pc = "ok" /\ UNCHANGED <<pa, executed, feedback>>
        /\ row' = [row EXCEPT ![e] = CompletedRow(run[r].no)]
    BY <1>5, <1>e DEF WriteCompleted
  <2>2. executed'[e] = 1 /\ row'[e].status = "COMPLETED"
    BY <1>s, <1>h, <2>1 DEF InFlightPcs, CompletedRow
  <2>3. \A q \in Runners : ~Holds(q, e)'
    BY <1>h, <1>m, <2>1 DEF Holds, InFlightPcs
  <2>4. Calm(e)'
    BY <1>m, <2>1, <2>2, <2>3 DEF Calm, Counted, Told
  <2> QED BY <1>e, <1>s, <1>m, <2>1, <2>4, CalmFrame
<1>6. CASE WriteFailure(r)
  <2>1. /\ run[r].pc \in {"transient", "permanent"} /\ UNCHANGED <<pa, executed, feedback>>
        /\ row' = [row EXCEPT ![e] = FailedRow(run[r].pc, run[r].no)]
        /\ \/ FailedRow(run[r].pc, run[r].no).status = "QUEUED" /\ Rest(r)
           \/ FailedRow(run[r].pc, run[r].no).status = "DEAD" /\ Goto(r, "dead")
    BY <1>6, <1>e DEF WriteFailure
  <2>2. executed'[e] = 0 /\ row'[e] = FailedRow(run[r].pc, run[r].no)
    BY <1>s, <1>h, <2>1 DEF InFlightPcs
  <2>3. \A q \in Runners : ~Holds(q, e)'
    BY <1>h, <1>m, <2>1 DEF Holds, InFlightPcs
  <2>4. Calm(e)'
    BY <1>m, <2>1, <2>2, <2>3 DEF Calm, Counted, Told
  <2> QED BY <1>e, <1>s, <1>m, <2>1, <2>4, CalmFrame
<1>7. CASE OnCompleted(r)
  <2>1. /\ feedback' = [feedback EXCEPT ![e] = @ \cup {"APPROVED"}] /\ Rest(r)
        /\ UNCHANGED <<row, pa, executed>> /\ run[r].pc = "completed"
    BY <1>7, <1>e DEF OnCompleted
  <2>2. row[e].status = "COMPLETED" /\ "APPROVED" \in feedback'[e]
    BY <1>s, <1>e, <1>g, <2>1 DEF Agrees
  <2>3. \A q \in Runners : ~Holds(q, e)
    BY <2>2, ClaimHolds DEF Holds
  <2>4. \A q \in Runners : ~Holds(q, e)'
    BY <1>m, <2>1, <2>3 DEF Holds, InFlightPcs
  <2>5. Calm(e)'
    BY <1>g, <2>1, <2>2, <2>4 DEF Calm, Counted, Told
  <2> QED BY <1>e, <1>s, <1>m, <2>1, <2>5, CalmFrame
<1>8. CASE OnDead(r) \/ MirrorFailure(r)
  <2>1. /\ run[r].pc \in {"dead", "failed"} /\ UNCHANGED <<row, executed>>
        /\ \A q \in Runners \ {r} : run'[q] = run[q]
        /\ \/ run'[r].pc = "failed" /\ run'[r].act = e
           \/ run'[r].pc = "idle" /\ "FAILED" \in feedback'[e] /\ pa'[e] = "FAILED"
        /\ \A a \in Actions \ {e} : pa'[a] = pa[a] /\ feedback'[a] = feedback[a]
    <3>1. CASE OnDead(r)
      BY <1>s, <1>m, <1>e, <3>1 DEF OnDead
    <3>2. CASE MirrorFailure(r)
      BY <1>s, <1>m, <1>e, <1>g, <3>2 DEF MirrorFailure, Agrees
    <3> QED BY <1>8, <3>1, <3>2
  <2>2. row[e].status = "DEAD"
    BY <1>e, <1>g, <2>1 DEF Agrees
  <2>3. \A q \in Runners : ~Holds(q, e)
    BY <2>2, ClaimHolds DEF Holds
  <2>4. \A q \in Runners : ~Holds(q, e)'
    BY <2>1, <2>3 DEF Holds, InFlightPcs
  <2>5. Calm(e)'
    BY <1>g, <2>1, <2>2, <2>4 DEF Calm, Counted, Told
  <2> QED BY <1>e, <2>1, <2>5, CalmFrame
<1> QED
  BY <1>e, <1>1, <1>2, <1>3, <1>4, <1>5, <1>6, <1>7, <1>8 DEF AttemptStep

LEMMA LoopCalm ==
  ASSUME TypeOK, Prompt, \A a \in Actions : Calm(a), TickStep \/ SweepStep
  PROVE  \A a \in Actions : Calm(a)'
<1> USE DEF At
<1>s. /\ row \in [Actions -> RowType] /\ pa \in [Actions -> PaStatus]
      /\ feedback \in [Actions -> SUBSET Signals] /\ run \in [Runners -> RunType]
      /\ Drainer \in Runners
  BY StateTypes DEF Runners
\* A row in progress is held, so it is not stale.
<1>1. CASE Reclaim
  <2>1. ASSUME NEW a \in Actions PROVE ~Stale(a)
    <3> SUFFICES ASSUME row[a].status = "IN_PROGRESS" PROVE ~row[a].ripe
      BY DEF Stale
    <3>1. PICK r \in Runners : Holds(r, a)
      BY DEF Calm, Counted
    <3>2. row[a] = ClaimedRow(run[r].no)
      BY <3>1 DEF Holds, Prompt, Agrees
    <3> QED BY <3>2 DEF ClaimedRow
  <2>2. /\ \A a \in Actions : row'[a].status = row[a].status
        /\ UNCHANGED <<run, pa, executed, feedback>>
    BY <1>1, <2>1 DEF Reclaim
  <2> QED BY <2>2, CalmMoves
<1>2. CASE NextRow
  <2>1. PICK b \in batch : Start(Drainer, "ready", b.act, b.no)
    BY <1>2 DEF NextRow
  <2>2. /\ run[Drainer].pc = "idle" /\ run'[Drainer].pc = "ready"
        /\ \A q \in Runners \ {Drainer} : run'[q] = run[q]
        /\ UNCHANGED <<row, pa, executed, feedback>>
    BY <1>2, <1>s, <2>1 DEF NextRow, Start
  <2>3. {"idle", "ready"} \cap ClaimingPcs = {}
    BY DEF ClaimingPcs, InFlightPcs
  <2> QED BY <2>2, <2>3, CalmMoves
<1>3. CASE ResetRow
  BY <1>3, <1>s DEF ResetRow, Prompt, Agrees
<1>4. CASE FindDue \/ WakeSnoozed \/ ExpiryReads \/ ExpiryClaims \/ ExpiryMirrors
  <2>1. UNCHANGED <<row, run, executed>>
    BY <1>4 DEF FindDue, WakeSnoozed, ExpiryReads, ExpiryClaims, ExpiryMirrors
  <2>2. \A a \in Actions : pa[a] = "FAILED" => pa'[a] = "FAILED"
    BY <1>4 DEF FindDue, WakeSnoozed, ExpiryReads, ExpiryClaims, ExpiryMirrors
  <2>3. \A a \in Actions : feedback[a] \subseteq feedback'[a]
    BY <1>4 DEF FindDue, WakeSnoozed, ExpiryReads, ExpiryClaims, ExpiryMirrors
  <2> QED BY <2>1, <2>2, <2>3, CalmMoves
<1> QED BY <1>1, <1>2, <1>3, <1>4 DEF TickStep, SweepStep

LEMMA NextCalm ==
  ASSUME TypeOK, TypeOK', IntentInv, PromptInv, CalmInv, [Next]_vars
  PROVE  CalmInv'
<1> SUFFICES ASSUME faults' = 0 PROVE \A a \in Actions : Calm(a)'
  BY DEF CalmInv
<1>q. faults = 0 /\ ~FaultStep
  <2>1. FaultStep => faults' = faults + 1
    BY DEF FaultStep, CrashSlot, MirrorApprovalFails, CrashTick, CrashSweep, ResetFails,
       ToolMisreports, ClaimFails, CompletedWriteFails, FailureWriteFails, SideEffectsFail,
       SlowAttempt, FailingWrite, Fault
  <2>2. FaultStep \/ faults' = faults
    BY DEF Next, vars, ReadPending, RequestStep, CommitApproval, MirrorApproval, ReadRow,
       CommitReject, MirrorReject, WriteSnooze, AttemptStep, Claim, ToolSucceeds, ToolFails,
       WriteCompleted, WriteFailure, OnCompleted, OnDead, MirrorFailure, TickStep, Reclaim,
       FindDue, NextRow, WakeSnoozed, ResetRow, SweepStep, ExpiryReads, ExpiryClaims,
       ExpiryMirrors, ClockPasses
  <2>3. faults \in Nat
    BY DEF TypeOK, GhostTypeOK
  <2> QED BY <2>1, <2>2, <2>3
<1>p. Prompt /\ \A a \in Actions : Calm(a)
  BY <1>q DEF PromptInv, Quiet, CalmInv
<1>1. ASSUME NEW s \in Slots, NEW a \in Actions, NEW n \in {"approving", "rejecting", "snoozing"},
             ReadPending(s, a, n)
      PROVE  \A b \in Actions : Calm(b)'
  <2>1. /\ run[s].pc = "idle" /\ run'[s].pc = n /\ \A q \in Runners \ {s} : run'[q] = run[q]
        /\ UNCHANGED <<row, pa, executed, feedback>>
    BY <1>1, StateTypes DEF ReadPending, Start, Runners, At
  <2>2. {"idle", n} \cap ClaimingPcs = {}
    BY DEF ClaimingPcs, InFlightPcs
  <2> QED BY <1>p, <2>1, <2>2, CalmMoves
<1>2. ASSUME NEW a \in Actions, ClockPasses(a) PROVE \A b \in Actions : Calm(b)'
  <2>1. /\ UNCHANGED <<run, pa, executed, feedback>>
        /\ \A b \in Actions : row'[b].status = row[b].status
    BY <1>2, StateTypes DEF ClockPasses, RowType
  <2> QED BY <1>p, <2>1, CalmMoves
<1>3. CASE UNCHANGED vars
  BY <1>3, <1>p, CalmMoves DEF vars
<1> QED
  BY <1>1, <1>2, <1>3, <1>p, <1>q, RequestCalm, AttemptCalm, LoopCalm DEF Next

LEMMA CalmCorrect == Spec => []CalmInv
<1>1. Init => CalmInv
  BY OutboxAssumption DEF Init, CalmInv, Calm, Counted, Told, Holds, IdleRun, InFlightPcs
<1> QED
  BY <1>1, NextCalm, TypeCorrect, IntentCorrect, PromptCorrect, PTL DEF Spec

\* Until the first fault the stored outcome tells what happened, whatever the
\* handlers, the worker and the sweep do at the same time.
THEOREM OutcomesAreTrue == Spec => []OutcomeIsTrue
<1>1. TypeOK /\ IntentInv /\ PromptInv /\ CalmInv => OutcomeIsTrue
  <2> SUFFICES ASSUME TypeOK, IntentInv, PromptInv, CalmInv, faults = 0, NEW a \in Actions
               PROVE  /\ row[a].status = "COMPLETED" =>
                           /\ executed[a] = 1
                           /\ \/ Busy(a)
                              \/ pa[a] = "EXECUTED" /\ feedback[a] \ {"IGNORED"} = {"APPROVED"}
                      /\ row[a].status = "DEAD" =>
                           /\ executed[a] = 0
                           /\ \/ Busy(a)
                              \/ pa[a] = "FAILED" /\ feedback[a] \ {"IGNORED"} = {"FAILED"}
    BY DEF OutcomeIsTrue
  <2>1. Stored(a) /\ Counted(a) /\ Told(a)
    BY DEF PromptInv, Quiet, Prompt, CalmInv, Calm
  <2>2. /\ row[a].status # "NONE" => pa[a] \in {"EXECUTED", "FAILED"}
        /\ feedback[a] \subseteq Signals
    BY DEF IntentInv, ApprovalHasIntent, Approved, TypeOK, QueueTypeOK
  <2>3. CASE row[a].status = "COMPLETED"
    <3>1. Busy(a) \/ "APPROVED" \in feedback[a]
      BY <2>1, <2>3 DEF Told, Busy
    <3>2. pa[a] = "EXECUTED" /\ {"FAILED", "REJECTED"} \cap feedback[a] = {}
      BY <2>1, <2>2, <2>3 DEF Stored
    <3> QED BY <2>1, <2>2, <2>3, <3>1, <3>2 DEF Counted, Signals
  <2>4. CASE row[a].status = "DEAD"
    <3>1. Busy(a) \/ ("FAILED" \in feedback[a] /\ pa[a] = "FAILED")
      BY <2>1, <2>4 DEF Told, Busy
    <3>2. {"APPROVED", "REJECTED"} \cap feedback[a] = {}
      BY <2>1, <2>2, <2>4 DEF Stored
    <3> QED BY <2>1, <2>2, <2>4, <3>1, <3>2 DEF Counted, Signals
  <2> QED BY <2>3, <2>4
<1> QED BY <1>1, TypeCorrect, IntentCorrect, PromptCorrect, CalmCorrect, PTL
=============================================================================
