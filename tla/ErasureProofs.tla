---------------------------- MODULE ErasureProofs ----------------------------
(***************************************************************************)
(* The erasure of an account, for any number of processes, uploads and     *)
(* erasing calls: it implements the fence, so the fence's theorem carries  *)
(* over; and its purge leaves no object behind, and takes no file that was *)
(* stored after it.                                                        *)
(***************************************************************************)
EXTENDS Erasure, DataWipeProofs

(* Every step of the erasure is a step of the fence, or none of its own.   *)
LEMMA StepsOfTheFence ==
    ASSUME [Next]_vars
    PROVE  [WipeNext]_wv
<1>1. CASE UNCHANGED vars
  BY <1>1 DEF vars, wv, wipeVars
<1>2. CASE Tick
  BY <1>2 DEF Tick, WipeNext
<1>3. CASE Steps /\ UNCHANGED now
  <2> SUFFICES WipeStep \/ UNCHANGED wipeVars
    BY <1>3 DEF WipeNext, wv
  <2>1. CASE Fenced
    BY <2>1 DEF Fenced, WritesOnly, WipeStep
  <2>2. CASE \E e \in Erasers : AsksToLeave(e) \/ Leaves(e) \/ EraserFails(e) \/ StartsPass(e)
    BY <2>2 DEF AsksToLeave, Leaves, EraserFails, StartsPass, WipeStep
  <2>3. CASE \E w \in Works, p \in Procs : UploadStarts(w, p)
    BY <2>3 DEF UploadStarts, WipeStep
  <2>4. CASE \E w \in Works : Stores(w) \/ WritesRow(w) \/ Withdraws(w) \/ Discards(w)
    BY <2>4 DEF Stores, WritesRow, Withdraws, Discards, WipeStep
  <2>5. CASE \E a \in Passers : RunsPass(a) \/ RecordsPass(a) \/ LosesOutcome(a)
    BY <2>5 DEF RunsPass, RecordsPass, LosesOutcome, WipeStep, Passers
  <2>6. CASE SweepsObjects
    BY <2>6 DEF SweepsObjects
  <2>7. CASE \E p \in Procs \cup {Elsewhere} : Restart(p)
    BY <2>7 DEF Restart, WipeStep
  <2> QED BY <1>3, <2>1, <2>2, <2>3, <2>4, <2>5, <2>6, <2>7 DEF Steps
<1> QED BY <1>1, <1>2, <1>3 DEF Next

(* The erasure of an account implements the fence.                         *)
THEOREM ImplementsFence == Spec => WipeSpec
<1>1. Init => WipeInit /\ now = 0
  BY DEF Init
<1>2. [Next]_vars => [WipeNext]_<<now, wipeVars>>
  BY StepsOfTheFence DEF wv
<1> QED BY <1>1, <1>2, PTL DEF Spec, WipeSpec

(* Once a wipe has purged the rows, none of work that began before is left.*)
THEOREM NoOldRow == Spec => []NothingOldSurvives
BY ImplementsFence, FenceHolds, PTL

-----------------------------------------------------------------------------
(* The inductive invariant of the purge.                                   *)

Begun(w) == upload[w] # "idle"
Active(a) == pass[a].pc \in {"deleting", "emptied", "failed"}

UploadClock ==
    \A w \in Works :
        /\ Begun(w) => work[w].pc # "idle"
        /\ InFlight(w) => now <= work[w].began + UploadMax

PassClock ==
    \A a \in Passers :
        Active(a) => pass[a].startedAt <= now /\ now <= pass[a].startedAt + PassMax

(* An eraser has a pass exactly while it waits for one.                    *)
PassOwner ==
    \A e \in Erasers :
        IF eraser[e].pc \in {"passing", "emptying"} THEN Active(e) ELSE pass[e].pc = "no"

(* The record outlasts the passes, and a deletion that had one.            *)
Recorded ==
    /\ record.on => record.requestedAt <= now
    /\ pass[Sweeper].pc # "no" => record.on
    /\ \A e \in Erasers :
          /\ eraser[e].pc \in {"passing", "emptying"} =>
                record.on /\ pass[e].startedAt <= record.requestedAt
          /\ eraser[e].pc = "removing" =>
                record.on /\ eraser[e].stamp <= record.requestedAt + PassMax

(* The record refuses new uploads, and so does a deleted account.          *)
Older ==
    /\ record.on \/ ~alive => \A w \in Works : Begun(w) => w \in older
    /\ \A w \in older : Begun(w) /\ (record.on => work[w].began <= record.requestedAt)

(* The bucket, once the pass that finishes the record has emptied it.      *)
Grounded ==
    /\ \A w \in objects : Begun(w)
    /\ ~record.on => \A w \in older : w \notin objects /\ upload[w] \notin {"accepted", "putting", "adrift"}
    /\ \A a \in Passers :
          pass[a].pc = "emptied" /\ record.on /\ record.requestedAt + Grace <= pass[a].startedAt
             => objects \cap older = {}

(* What the erasers have seen of the wipe and the account.                 *)
Erasing ==
    \A e \in Erasers :
        /\ eraser[e].pc \in {"leaving", "emptying", "removing"} => doomed
        /\ eraser[e].pc = "objects" =>
              /\ doomed \/ wipe.st # "none"
              /\ wipe.st = "purged" => eraser[e].stamp <= wipe.purgedAt

(* A file that no erasure is to take.                                      *)
Safe(w) ==
    /\ ~doomed
    /\ wipe.st # "pending"
    /\ wipe.st = "purged" => wipe.purgedAt < work[w].began

KeptRows == \A w \in Works : upload[w] \in {"written", "kept"} /\ Safe(w) => w \in rows

KeptObjects ==
    \A w \in Works :
        /\ upload[w] \in {"stored", "row", "written"} => w \in objects \/ record.on
        /\ upload[w] = "kept" /\ Safe(w) => w \in objects /\ ~record.on

PurgeInv ==
    /\ FenceInv /\ TypeOK
    /\ UploadClock /\ PassClock /\ PassOwner /\ Recorded /\ Older /\ Grounded
    /\ Erasing /\ KeptRows /\ KeptObjects

-----------------------------------------------------------------------------
(* Types of the purge.                                                     *)

PassPCs == {"no", "listed", "deleting", "emptied", "failed"}
UploadPCs == {"idle", "accepted", "putting", "adrift", "stored", "row", "written",
              "kept", "discard", "gone"}
Records == [on : BOOLEAN, requestedAt : Times, dueAt : Nat]

LEMMA PurgeParts ==
    PurgeTypes <=> /\ record \in Records /\ objects \subseteq Works
                   /\ upload \in [Works -> UploadPCs]
                   /\ pass \in [Passers -> [pc : PassPCs, startedAt : Times]]
BY DEF PurgeTypes, Records, UploadPCs, PassPCs

LEMMA PurgeFields ==
    ASSUME TypeOK
    PROVE  /\ record.on \in BOOLEAN /\ record.requestedAt \in Nat /\ record.dueAt \in Nat
           /\ now \in Nat
           /\ \A a \in Passers : pass[a].startedAt \in Nat /\ pass[a].pc \in PassPCs
           /\ DOMAIN upload = Works /\ DOMAIN pass = Passers
           /\ Sweeper \in Passers /\ Erasers \subseteq Passers /\ Sweeper \notin Erasers
           /\ Passers = Erasers \cup {Sweeper}
<1>1. Times \subseteq Nat
  BY AccountAssumption DEF Times
<1>2. record.on \in BOOLEAN /\ record.requestedAt \in Times /\ record.dueAt \in Nat
  BY PurgeParts DEF TypeOK, Records
<1>3. /\ \A a \in Passers : pass[a].startedAt \in Times /\ pass[a].pc \in PassPCs
      /\ DOMAIN upload = Works /\ DOMAIN pass = Passers
  BY PurgeParts DEF TypeOK
<1> QED BY <1>1, <1>2, <1>3, AccountAssumption DEF Passers, TypeOK

LEMMA PassUpdates ==
    ASSUME TypeOK, NEW a \in Passers, NEW pc \in PassPCs, NEW t \in Times
    PROVE  /\ [pass EXCEPT ![a].pc = pc] \in [Passers -> [pc : PassPCs, startedAt : Times]]
           /\ [pass EXCEPT ![a] = [pc |-> pc, startedAt |-> t]]
                \in [Passers -> [pc : PassPCs, startedAt : Times]]
BY PurgeParts DEF TypeOK

LEMMA RecordUpdates ==
    ASSUME TypeOK, NEW d \in Nat
    PROVE  [record EXCEPT !.dueAt = d] =
             [on |-> record.on, requestedAt |-> record.requestedAt, dueAt |-> d]
BY PurgeParts DEF TypeOK, Records

(* The steps of an upload and of a pass.                                   *)
Uploads(w) ==
    \/ UploadBegins(w) \/ UploadPuts(w) \/ UploadLands(w) \/ UploadRechecks(w) \/ RowWritten(w)
    \/ RowRefused(w) \/ UploadConfirms(w) \/ UploadWithdraws(w) \/ discardKlornUpload(w)
    \/ DiscardFails(w) \/ UploadFails(w) \/ PutEnds(w)

Passes(a) ==
    \/ markPurgePending(a) \/ PassDeletes(a) \/ PassFails(a) \/ recordPurgePassSucceeded(a)
    \/ recordPurgePassFailed(a) \/ PassUnrecorded(a)
    \/ a = Sweeper /\ (duePurges \/ SweepStartsPass)

LEMMA UploadsTyped ==
    ASSUME TypeOK, NEW w \in Works, Uploads(w)
    PROVE  /\ UNCHANGED <<record, pass>>
           /\ objects' \subseteq objects \cup {w}
           /\ \E pc \in UploadPCs : upload' = [upload EXCEPT ![w] = pc]
<1>1. CASE UploadBegins(w) \/ UploadPuts(w) \/ UploadLands(w)
  BY <1>1 DEF UploadBegins, UploadPuts, UploadLands, Uploading, UploadPCs
<1>2. CASE UploadRechecks(w) \/ RowWritten(w) \/ RowRefused(w) \/ UploadConfirms(w)
  BY <1>2 DEF UploadRechecks, RowWritten, RowRefused, UploadConfirms, Uploading, UploadPCs
<1>3. CASE UploadWithdraws(w) \/ discardKlornUpload(w) \/ DiscardFails(w) \/ UploadFails(w) \/ PutEnds(w)
  BY <1>3 DEF UploadWithdraws, discardKlornUpload, DiscardFails, UploadFails, PutEnds, Uploading, UploadPCs
<1> QED BY <1>1, <1>2, <1>3 DEF Uploads

LEMMA PassesTyped ==
    ASSUME TypeOK, NEW a \in Passers, Passes(a)
    PROVE  /\ UNCHANGED upload
           /\ objects' \subseteq objects
           /\ record' \in Records
           /\ pass' \in [Passers -> [pc : PassPCs, startedAt : Times]]
<1>0. /\ now \in Times /\ 0 \in Times /\ Times \subseteq Nat
      /\ Grace \in Nat /\ Backoff \in Nat
      /\ {"no", "listed", "deleting", "emptied", "failed"} = PassPCs
  BY AccountAssumption, PurgeAssumption DEF TypeOK, Times, PassPCs
<1>1. record \in Records /\ pass \in [Passers -> [pc : PassPCs, startedAt : Times]]
  BY PurgeParts DEF TypeOK
<1>2. \A d \in Nat : [on |-> record.on, requestedAt |-> record.requestedAt, dueAt |-> d] \in Records
  BY <1>1 DEF Records
<1>3. NoRecord \in Records
  BY <1>0 DEF NoRecord, Records
<1>4. CASE markPurgePending(a)
  <2>1. [on |-> TRUE, requestedAt |-> now, dueAt |-> now] \in Records
    BY <1>0 DEF Records
  <2> QED BY <1>0, <1>4, <2>1, PassUpdates DEF markPurgePending, Passing
<1>5. CASE PassDeletes(a)
  BY <1>0, <1>1, <1>5, PassUpdates DEF PassDeletes
<1>6. CASE PassFails(a)
  BY <1>0, <1>1, <1>6, PassUpdates DEF PassFails
<1>7. CASE recordPurgePassSucceeded(a)
  <2>1. pass[a].startedAt + Grace \in Nat
    <3>1. pass[a].startedAt \in Nat
      BY PurgeFields
    <3> QED BY <1>0, <3>1
  <2>2. [record EXCEPT !.dueAt = pass[a].startedAt + Grace] \in Records
    BY <1>2, <2>1, RecordUpdates
  <2>3. pass' = [pass EXCEPT ![a] = [pc |-> "no", startedAt |-> 0]]
    BY <1>7 DEF recordPurgePassSucceeded, PassEnds, NoPass
  <2> QED BY <1>0, <1>1, <1>3, <1>7, <2>2, <2>3, PassUpdates DEF recordPurgePassSucceeded
<1>8. CASE recordPurgePassFailed(a)
  <2>1. now + Backoff \in Nat
    BY <1>0
  <2>2. [record EXCEPT !.dueAt = now + Backoff] \in Records
    BY <1>2, <2>1, RecordUpdates
  <2>3. pass' = [pass EXCEPT ![a] = [pc |-> "no", startedAt |-> 0]]
    BY <1>8 DEF recordPurgePassFailed, PassEnds, NoPass
  <2> QED BY <1>0, <1>1, <1>8, <2>2, <2>3, PassUpdates DEF recordPurgePassFailed
<1>9. CASE PassUnrecorded(a)
  BY <1>0, <1>1, <1>9, PassUpdates DEF PassUnrecorded, PassEnds, NoPass
<1>10. CASE a = Sweeper /\ duePurges
  BY <1>0, <1>1, <1>10, PassUpdates DEF duePurges
<1>11. CASE a = Sweeper /\ SweepStartsPass
  BY <1>0, <1>1, <1>11, PassUpdates DEF SweepStartsPass, Passing
<1> QED BY <1>4, <1>5, <1>6, <1>7, <1>8, <1>9, <1>10, <1>11 DEF Passes

LEMMA RestartTyped ==
    ASSUME TypeOK, NEW ups, NEW pas, PurgeRestart(ups, pas)
    PROVE  /\ UNCHANGED <<record, objects>>
           /\ upload' \in [Works -> UploadPCs]
           /\ pass' \in [Passers -> [pc : PassPCs, startedAt : Times]]
<1>1. /\ upload \in [Works -> UploadPCs] /\ {"gone", "adrift"} \subseteq UploadPCs
      /\ pass \in [Passers -> [pc : PassPCs, startedAt : Times]]
  BY PurgeParts DEF TypeOK, UploadPCs
<1>2. NoPass \in [pc : PassPCs, startedAt : Times]
  BY AccountAssumption DEF NoPass, PassPCs, Times
<1> QED BY <1>1, <1>2 DEF PurgeRestart, Stopped

-----------------------------------------------------------------------------
(* The steps by what they leave alone.                                     *)

FenceOnly ==
    \/ Fenced
    \/ \E e \in Erasers : AsksToLeave(e) \/ Leaves(e) \/ EraserFails(e)

UploadStep(w) ==
    \/ \E p \in Procs : UploadStarts(w, p)
    \/ Stores(w) \/ WritesRow(w) \/ Withdraws(w) \/ Discards(w)

PassStep(a) ==
    \/ a \in Erasers /\ StartsPass(a)
    \/ RunsPass(a) \/ RecordsPass(a) \/ LosesOutcome(a)
    \/ a = Sweeper /\ SweepsObjects

LEMMA StepCases ==
    ASSUME Steps
    PROVE  \/ FenceOnly
           \/ \E w \in Works : UploadStep(w)
           \/ \E a \in Passers : PassStep(a)
           \/ \E p \in Procs \cup {Elsewhere} : Restart(p)
BY DEF Steps, FenceOnly, UploadStep, PassStep, Passers

LEMMA FenceOnlyLeaves ==
    ASSUME FenceOnly
    PROVE  UNCHANGED <<record, objects, upload, pass, older>>
BY DEF FenceOnly, Fenced, AsksToLeave, Leaves, EraserFails, purgeVars, ghosts

LEMMA UploadStepLeaves ==
    ASSUME NEW w \in Works, UploadStep(w)
    PROVE  /\ Uploads(w)
           /\ UNCHANGED <<alive, older, doomed, wipe, eraser>>
<1>1. ASSUME NEW p \in Procs, UploadStarts(w, p)
      PROVE  Uploads(w) /\ UNCHANGED <<alive, older, doomed, wipe, eraser>>
  BY <1>1 DEF UploadStarts, Uploads, WorkBegins, ghosts
<1>2. CASE Stores(w)
  BY <1>2 DEF Stores, Uploads, wipeVars, ghosts
<1>3. CASE WritesRow(w)
  BY <1>3 DEF WritesRow, Uploads, Inserts, HookRejects, TriggerRejects, ghosts
<1>4. CASE Withdraws(w)
  BY <1>4 DEF Withdraws, Uploads, RowRemoved, ghosts
<1>5. CASE Discards(w)
  BY <1>5 DEF Discards, Uploads, wipeVars, ghosts
<1> QED BY <1>1, <1>2, <1>3, <1>4, <1>5 DEF UploadStep

LEMMA PassStepLeaves ==
    ASSUME NEW a \in Passers, PassStep(a)
    PROVE  /\ Passes(a)
           /\ UNCHANGED <<alive, doomed, wipe, rows, work>>
           /\ UNCHANGED older \/ markPurgePending(a)
<1>1. CASE a \in Erasers /\ StartsPass(a)
  BY <1>1 DEF StartsPass, Passes, ObjectsStart
<1>2. CASE RunsPass(a)
  BY <1>2 DEF RunsPass, Passes, wipeVars, ghosts
<1>3. CASE RecordsPass(a)
  BY <1>3 DEF RecordsPass, Passes, wipeVars, ghosts, ObjectsDone
<1>4. CASE LosesOutcome(a)
  BY <1>4 DEF LosesOutcome, Passes, wipeVars, ghosts, FinishFails
<1>5. CASE a = Sweeper /\ SweepsObjects
  BY <1>5 DEF SweepsObjects, Passes, wipeVars, ghosts
<1> QED BY <1>1, <1>2, <1>3, <1>4, <1>5 DEF PassStep

LEMMA RestartLeaves ==
    ASSUME NEW p \in Procs \cup {Elsewhere}, Restart(p)
    PROVE  /\ UNCHANGED <<alive, older, doomed, wipe, rows, record, objects>>
           /\ WipeRestart(p)
           /\ PurgeRestart({w \in Works : work[w].proc = p}, {a \in Passers : Home[a] = p})
BY DEF Restart, WipeRestart, PurgeRestart, ghosts

LEMMA FaultsTyped ==
    ASSUME TypeOK, Steps
    PROVE  faults' \in 0 .. MaxFaults
<1>1. faults' = faults \/ Fault
  <2>1. CASE FenceOnly
    BY <2>1 DEF FenceOnly, Fenced, AsksToLeave, Leaves, EraserFails, FinishFails
  <2>2. ASSUME NEW w \in Works, UploadStep(w) PROVE faults' = faults \/ Fault
    BY <2>2 DEF UploadStep, UploadStarts, Stores, WritesRow, Withdraws, Discards,
                discardKlornUpload, DiscardFails, UploadFails, PutEnds
  <2>3. ASSUME NEW a \in Passers, PassStep(a) PROVE faults' = faults \/ Fault
    BY <2>3 DEF PassStep, StartsPass, RunsPass, RecordsPass, LosesOutcome, SweepsObjects,
                PassDeletes, PassFails, PassUnrecorded
  <2>4. ASSUME NEW p \in Procs \cup {Elsewhere}, Restart(p) PROVE Fault
    BY <2>4 DEF Restart
  <2> QED BY <2>1, <2>2, <2>3, <2>4, StepCases
<1> QED BY <1>1, AccountAssumption DEF Fault, TypeOK

LEMMA ErasureTyped ==
    ASSUME TypeOK, [Next]_vars
    PROVE  TypeOK'
<1>0. Typed /\ Typed'
  <2>1. Typed
    BY DEF TypeOK, Typed
  <2> QED BY <2>1, StepsOfTheFence, TypedStep
<1>1. CASE UNCHANGED vars
  BY <1>1, <1>0 DEF vars, TypeOK, purgeVars, ghosts, PurgeTypes, Typed
<1>2. CASE Tick
  BY <1>2, <1>0 DEF Tick, TypeOK, purgeVars, ghosts, PurgeTypes, Typed
<1>3. CASE Steps /\ UNCHANGED now
  <2>0. /\ record \in Records /\ objects \subseteq Works
        /\ upload \in [Works -> UploadPCs]
        /\ pass \in [Passers -> [pc : PassPCs, startedAt : Times]]
        /\ older \subseteq Works /\ doomed \in BOOLEAN /\ alive \in BOOLEAN
    BY PurgeParts DEF TypeOK
  <2> SUFFICES /\ record' \in Records /\ objects' \subseteq Works
               /\ upload' \in [Works -> UploadPCs]
               /\ pass' \in [Passers -> [pc : PassPCs, startedAt : Times]]
               /\ older' \subseteq Works /\ doomed' \in BOOLEAN /\ alive' \in BOOLEAN
    <3>1. faults' \in 0 .. MaxFaults
      BY <1>3, FaultsTyped
    <3> QED BY <1>0, <3>1 DEF TypeOK, Typed, PurgeTypes, Records, UploadPCs, PassPCs
  <2>1. CASE FenceOnly
    <3>1. alive' \in BOOLEAN /\ doomed' \in BOOLEAN
      BY <2>0, <2>1 DEF FenceOnly, Fenced, AsksToLeave, Leaves, EraserFails, AccountGoes, ghosts
    <3> QED BY <2>0, <2>1, <3>1, FenceOnlyLeaves
  <2>2. ASSUME NEW w \in Works, UploadStep(w)
        PROVE  /\ UNCHANGED <<record, pass, older, doomed, alive>>
               /\ objects' \subseteq Works /\ upload' \in [Works -> UploadPCs]
    <3>1. /\ UNCHANGED <<record, pass, older, doomed, alive>>
          /\ objects' \subseteq Works
          /\ \E pc \in UploadPCs : upload' = [upload EXCEPT ![w] = pc]
      BY <2>0, <2>2, UploadStepLeaves, UploadsTyped
    <3> QED BY <2>0, <3>1
  <2>3. ASSUME NEW a \in Passers, PassStep(a)
        PROVE  /\ UNCHANGED <<upload, doomed, alive>> /\ objects' \subseteq Works
               /\ record' \in Records
               /\ pass' \in [Passers -> [pc : PassPCs, startedAt : Times]]
               /\ older' \subseteq Works
    <3>1. older' \subseteq Works
      BY <2>0, <2>3 DEF PassStep, StartsPass, RunsPass, RecordsPass, LosesOutcome, SweepsObjects, ghosts
    <3> QED BY <2>0, <2>3, <3>1, PassStepLeaves, PassesTyped
  <2>4. ASSUME NEW p \in Procs \cup {Elsewhere}, Restart(p)
        PROVE  /\ UNCHANGED <<record, objects, older, doomed, alive>>
               /\ upload' \in [Works -> UploadPCs]
               /\ pass' \in [Passers -> [pc : PassPCs, startedAt : Times]]
    BY <2>4, RestartLeaves, RestartTyped
  <2> QED BY <1>3, <2>0, <2>1, <2>2, <2>3, <2>4, StepCases
<1> QED BY <1>1, <1>2, <1>3 DEF Next

(* A work that has begun keeps its beginning.                              *)
LEMMA BeganStays ==
    ASSUME Typed, [WipeNext]_wv, NEW w \in Works, work[w].pc # "idle"
    PROVE  work'[w].began = work[w].began /\ work'[w].pc # "idle"
<1>1. CASE UNCHANGED wipeVars
  BY <1>1 DEF wipeVars
<1>2. CASE WipeStep /\ UNCHANGED now
  <2>1. ASSUME NEW p \in Procs, LoadReads(p) \/ LoadLands(p) PROVE UNCHANGED work
    BY <2>1 DEF LoadReads, LoadLands
  <2>2. ASSUME NEW v \in Works, Working(v)
        PROVE  work'[w].began = work[w].began /\ work'[w].pc # "idle"
    <3>1. ASSUME NEW p \in Procs, WorkBegins(v, p)
          PROVE  work'[w].began = work[w].began /\ work'[w].pc # "idle"
      <4>1. v # w
        BY <3>1 DEF WorkBegins
      <4> QED BY <3>1, <4>1, WorkSteps, Domains
    <3>2. CASE HookAllows(v) \/ HookRejects(v) \/ Inserts(v) \/ TriggerRejects(v)
      BY <3>2, WorkSteps, Domains
    <3>3. CASE RowRemoved(v)
      BY <3>3 DEF RowRemoved
    <3> QED BY <2>2, <3>1, <3>2, <3>3 DEF Working
  <2>3. ASSUME NEW p \in Procs \cup {Elsewhere}, WipeRestart(p)
        PROVE  work'[w].began = work[w].began /\ work'[w].pc # "idle"
    BY <2>3, RestartWorks
  <2> QED BY <1>2, <2>1, <2>2, <2>3, WipeCases, QuietMoves, RemembersMoves, StampsMoves
<1> QED BY <1>1, <1>2 DEF WipeNext, wv

(* What a step of the fence alone may do to an eraser, the wipe, the rows. *)
FenceMove(e, pc, s) ==
    /\ eraser' = [eraser EXCEPT ![e] = [pc |-> pc, stamp |-> s]]
    /\ pass[e].pc = "no" \/ eraser[e].pc \notin {"passing", "emptying"}
    /\ pc = "leaving" => doomed'
    /\ pc = "objects" => wipe.st = "pending" /\ s = now /\ UNCHANGED wipe

LEMMA FenceOnlyErasers ==
    ASSUME TypeOK, FenceOnly
    PROVE  \/ UNCHANGED eraser
           \/ \E e \in Erasers, pc \in EraserPCs \ {"passing", "emptying", "removing"}, s \in Times :
                 FenceMove(e, pc, s)
<1>0. 0 \in Times /\ now \in Times
  BY AccountAssumption DEF TypeOK, Times
<1> DEFINE Move(e) == \E pc \in EraserPCs \ {"passing", "emptying", "removing"}, s \in Times :
                         FenceMove(e, pc, s)
<1>1. ASSUME \E p \in Procs : LoadReads(p) \/ LoadLands(p)
      PROVE  UNCHANGED eraser
  BY <1>1 DEF LoadReads, LoadLands
<1>2. ASSUME \E w \in Works : \/ HookAllows(w) \/ HookRejects(w) \/ Inserts(w) \/ TriggerRejects(w)
                              \/ \E p \in Procs : WorkBegins(w, p)
      PROVE  UNCHANGED eraser
  BY <1>2 DEF HookAllows, HookRejects, Inserts, TriggerRejects, WorkBegins
<1>3. ASSUME NEW e \in Erasers, recordWipeAndRevoke(e) \/ RemembersPending(e) \/ SweepPicks(e)
      PROVE  Move(e)
  BY <1>0, <1>3 DEF recordWipeAndRevoke, RemembersPending, SweepPicks, At, Goes, FenceMove, EraserPCs
<1>4. ASSUME NEW e \in Erasers, ReadsRecord(e)
      PROVE  Move(e)
  BY <1>0, <1>4 DEF ReadsRecord, At, Goes, FenceMove, EraserPCs
<1>5. ASSUME NEW e \in Erasers, Purges(e) \/ NotPending(e) \/ RemembersPurged(e)
      PROVE  Move(e)
  BY <1>0, <1>5 DEF Purges, NotPending, RemembersPurged, At, Goes, FenceMove, EraserPCs
<1>6. ASSUME NEW e \in Erasers, AsksToLeave(e)
      PROVE  Move(e)
  <2>1. FenceMove(e, "leaving", now)
    BY <1>6 DEF AsksToLeave, AsksDeletion, At, FenceMove
  <2>2. "leaving" \in EraserPCs \ {"passing", "emptying", "removing"}
    BY DEF EraserPCs
  <2> QED BY <1>0, <2>1, <2>2
<1>7. ASSUME NEW e \in Erasers, Leaves(e)
      PROVE  Move(e)
  <2>1. FenceMove(e, "idle", 0)
    BY <1>7 DEF Leaves, AccountGoes, Goes, FenceMove
  <2>2. "idle" \in EraserPCs \ {"passing", "emptying", "removing"}
    BY DEF EraserPCs
  <2> QED BY <1>0, <2>1, <2>2
<1>8. ASSUME NEW e \in Erasers, EraserFails(e)
      PROVE  Move(e)
  <2>1. FenceMove(e, "idle", 0)
    BY <1>8 DEF EraserFails, FinishFails, Goes, FenceMove
  <2>2. "idle" \in EraserPCs \ {"passing", "emptying", "removing"}
    BY DEF EraserPCs
  <2> QED BY <1>0, <2>1, <2>2
<1> HIDE DEF Move
<1>9. UNCHANGED eraser \/ \E e \in Erasers : Move(e)
  <2>1. CASE Fenced
    BY <1>1, <1>2, <1>3, <1>4, <1>5, <2>1 DEF Fenced, WritesOnly
  <2> QED BY <1>6, <1>7, <1>8, <2>1 DEF FenceOnly
<1> QED BY <1>9 DEF Move

LEMMA FenceOnlyWipe ==
    ASSUME TypeOK, FenceOnly
    PROVE  /\ \/ UNCHANGED wipe /\ rows \subseteq rows'
              \/ wipe'.st = "pending"
              \/ wipe'.st = "purged" /\ wipe'.purgedAt = now
              \/ wipe'.st = "none" /\ \E e \in Erasers : eraser[e].pc = "removing"
           /\ doomed => doomed'
           /\ UNCHANGED alive \/ \E e \in Erasers : eraser[e].pc = "removing"
<1>0. Typed
  BY DEF TypeOK, Typed
<1>1. CASE Fenced
  <2>1. UNCHANGED <<alive, doomed>>
    BY <1>1 DEF Fenced, ghosts
  <2>2. CASE \E p \in Procs : LoadReads(p) \/ LoadLands(p)
    BY <2>1, <2>2 DEF LoadReads, LoadLands
  <2>3. CASE \E w \in Works : \/ HookAllows(w) \/ HookRejects(w) \/ Inserts(w) \/ TriggerRejects(w)
                              \/ \E p \in Procs : WorkBegins(w, p)
    BY <2>1, <2>3 DEF HookAllows, HookRejects, Inserts, TriggerRejects, WorkBegins
  <2>4. CASE \E e \in Erasers : recordWipeAndRevoke(e)
    BY <2>1, <2>4 DEF recordWipeAndRevoke
  <2>5. CASE \E e \in Erasers : Purges(e)
    <3>1. wipe'.st = "purged" /\ wipe'.purgedAt = now
      BY <1>0, <2>5, Fields DEF Purges
    <3> QED BY <2>1, <3>1
  <2>6. CASE \E e \in Erasers : \/ RemembersPending(e) \/ SweepPicks(e) \/ ReadsRecord(e)
                                \/ NotPending(e) \/ RemembersPurged(e)
    BY <2>1, <2>6 DEF RemembersPending, SweepPicks, ReadsRecord, NotPending, RemembersPurged
  <2> QED BY <1>1, <2>2, <2>3, <2>4, <2>5, <2>6 DEF Fenced, WritesOnly
<1>2. CASE \E e \in Erasers : AsksToLeave(e)
  BY <1>2 DEF AsksToLeave, AsksDeletion
<1>3. CASE \E e \in Erasers : Leaves(e)
  BY <1>3 DEF Leaves, AccountGoes, NoWipe, ghosts
<1>4. CASE \E e \in Erasers : EraserFails(e)
  BY <1>4 DEF EraserFails, FinishFails, ghosts
<1> QED BY <1>1, <1>2, <1>3, <1>4 DEF FenceOnly

-----------------------------------------------------------------------------
(* What one step does to an upload.                                        *)

Starts(w) == \E p \in Procs : UploadBegins(w) /\ WorkBegins(w, p)

LEMMA UploadStepOthers ==
    ASSUME TypeOK, NEW w \in Works, UploadStep(w), NEW v \in Works, v # w
    PROVE  upload'[v] = upload[v] /\ (v \in objects' <=> v \in objects) /\ (v \in rows => v \in rows')
<1>1. upload'[v] = upload[v] /\ (v \in objects' <=> v \in objects)
  <2>1. DOMAIN upload = Works /\ Uploads(w)
    BY PurgeFields, UploadStepLeaves
  <2>2. upload'[v] = upload[v]
    BY <2>1, UploadsTyped
  <2>3. v \in objects' <=> v \in objects
    BY <2>1 DEF Uploads, UploadBegins, UploadPuts, UploadLands, UploadRechecks, RowWritten,
         RowRefused, UploadConfirms, UploadWithdraws, discardKlornUpload, DiscardFails, UploadFails, PutEnds
  <2> QED BY <2>2, <2>3
<1>2. v \in rows => v \in rows'
  BY DEF UploadStep, UploadStarts, Stores, WritesRow, Withdraws, Discards, WorkBegins, HookRejects,
         TriggerRejects, Inserts, RowRemoved, wipeVars
<1> QED BY <1>1, <1>2

UploadMoves(w) ==
    \/ /\ upload[w] = "idle" /\ upload'[w] = "accepted"
       /\ alive /\ ~record.on /\ Starts(w)
       /\ UNCHANGED <<objects, rows>>
    \/ /\ upload[w] = "accepted" /\ upload'[w] \in {"putting", "gone"}
       /\ UNCHANGED <<objects, rows>>
    \/ upload[w] = "putting" /\ upload'[w] = "adrift" /\ UNCHANGED <<objects, rows>>
    \/ /\ \/ upload[w] = "putting" /\ upload'[w] = "stored" /\ w \in objects'
          \/ upload[w] = "adrift" /\ upload'[w] = "gone"
       /\ objects \subseteq objects' /\ UNCHANGED rows
    \/ /\ upload[w] = "stored" /\ upload'[w] \in {"row", "discard"}
       /\ UNCHANGED <<objects, rows>>
    \/ /\ upload[w] = "row"
       /\ \/ upload'[w] = "written" /\ w \in rows'
          \/ upload'[w] = "discard"
       /\ UNCHANGED objects /\ rows \subseteq rows'
    \/ /\ upload[w] = "written"
       /\ \/ upload'[w] = "kept" /\ ~record.on /\ UNCHANGED rows
          \/ upload'[w] = "discard"
       /\ UNCHANGED objects
    \/ upload[w] = "discard" /\ upload'[w] = "gone" /\ objects' \subseteq objects

LEMMA UploadStepMoves ==
    ASSUME TypeOK, NEW w \in Works, UploadStep(w)
    PROVE  UploadMoves(w)
<1>1. DOMAIN upload = Works
  BY PurgeFields
<1>2. ASSUME NEW p \in Procs, UploadStarts(w, p)
      PROVE  UploadMoves(w)
  <2>1. UNCHANGED rows
    BY <1>2 DEF UploadStarts, WorkBegins
  <2>2. /\ upload[w] = "idle" /\ upload'[w] = "accepted"
        /\ alive /\ ~record.on /\ UNCHANGED objects
    BY <1>1, <1>2 DEF UploadStarts, UploadBegins, Uploading, isStoragePurgePending
  <2>3. Starts(w)
    BY <1>2 DEF UploadStarts, Starts
  <2> QED BY <2>1, <2>2, <2>3 DEF UploadMoves
<1>3. CASE Stores(w)
  <2>1. UNCHANGED rows
    BY <1>3 DEF Stores, wipeVars
  <2>2. CASE UploadPuts(w)
    BY <1>1, <2>1, <2>2 DEF UploadPuts, Uploading, UploadMoves
  <2>3. CASE UploadLands(w)
    BY <1>1, <2>1, <2>3 DEF UploadLands, Uploading, UploadMoves
  <2>4. CASE UploadRechecks(w)
    BY <1>1, <2>1, <2>4 DEF UploadRechecks, Uploading, UploadMoves
  <2>5. CASE UploadConfirms(w)
    BY <1>1, <2>1, <2>5 DEF UploadConfirms, Uploading, UploadMoves, isStoragePurgePending
  <2> QED BY <1>3, <2>2, <2>3, <2>4, <2>5 DEF Stores
<1>4. CASE WritesRow(w)
  <2>1. CASE RowWritten(w) /\ Inserts(w)
    BY <1>1, <2>1 DEF RowWritten, Inserts, Uploading, UploadMoves
  <2>2. CASE RowRefused(w) /\ (HookRejects(w) \/ TriggerRejects(w))
    BY <1>1, <2>2 DEF RowRefused, HookRejects, TriggerRejects, Uploading, UploadMoves
  <2> QED BY <1>4, <2>1, <2>2 DEF WritesRow
<1>5. CASE Withdraws(w)
  BY <1>1, <1>5 DEF Withdraws, UploadWithdraws, Uploading, UploadMoves
<1>6. CASE Discards(w)
  <2>1. UNCHANGED rows
    BY <1>6 DEF Discards, wipeVars
  <2>2. CASE discardKlornUpload(w) \/ DiscardFails(w)
    BY <1>1, <2>2 DEF discardKlornUpload, DiscardFails, Uploading, UploadMoves
  <2>3. CASE UploadFails(w)
    BY <1>1, <2>1, <2>3 DEF UploadFails, Uploading, UploadMoves
  <2>4. CASE PutEnds(w)
    BY <1>1, <2>1, <2>4 DEF PutEnds, Uploading, UploadMoves
  <2> QED BY <1>6, <2>2, <2>3, <2>4 DEF Discards
<1> QED BY <1>2, <1>3, <1>4, <1>5, <1>6 DEF UploadStep

LEMMA RestartUploads ==
    ASSUME NEW p \in Procs \cup {Elsewhere}, Restart(p), NEW w \in Works
    PROVE  \/ upload'[w] = upload[w]
           \/ upload'[w] = "gone" /\ upload[w] \notin {"idle", "kept"}
           \/ upload'[w] = "adrift" /\ upload[w] = "putting"
BY RestartLeaves DEF PurgeRestart, Stopped

-----------------------------------------------------------------------------
(* The clock's bounds.                                                     *)

LEMMA UploadClockStep ==
    ASSUME TypeOK, WorkClock, UploadClock, [Next]_vars
    PROVE  UploadClock'
<1>0. /\ UploadMax \in Nat /\ now \in Nat
      /\ Typed /\ [WipeNext]_wv
  BY PurgeAssumption, PurgeFields, StepsOfTheFence DEF TypeOK, Typed
<1> USE DEF UploadClock, Begun, InFlight
<1>1. CASE UNCHANGED vars
  BY <1>1 DEF vars, wipeVars, purgeVars
<1>2. CASE Tick
  <2>1. /\ now' = now + 1 /\ UNCHANGED <<work, upload>>
        /\ \A w \in Works : InFlight(w) => now < work[w].began + UploadMax
    BY <1>2 DEF Tick, Ticks, wipeVars, purgeVars
  <2>2. \A w \in Works : work[w].began \in Nat
    BY <1>0, Fields
  <2> QED BY <1>0, <2>1, <2>2
<1>3. CASE Steps /\ UNCHANGED now
  <2>1. \A w \in Works : work[w].pc # "idle" =>
              work'[w].began = work[w].began /\ work'[w].pc # "idle"
    BY <1>0, BeganStays
  <2>2. CASE FenceOnly
    BY <1>3, <2>1, <2>2, FenceOnlyLeaves
  <2>3. ASSUME NEW w \in Works, UploadStep(w) PROVE UploadClock'
    <3>1. \A v \in Works : v # w => upload'[v] = upload[v]
      BY <2>3, UploadStepOthers
    <3>2. CASE Starts(w)
      <4>1. work'[w].pc = "running" /\ work'[w].began = now
        BY <1>0, <3>2, WorkSteps, Domains DEF Starts
      <4> QED BY <1>0, <1>3, <2>1, <3>1, <4>1
    <3>3. CASE ~Starts(w)
      <4>1. (Begun(w)' => Begun(w)) /\ (InFlight(w)' => InFlight(w))
        BY <2>3, <3>3, UploadStepMoves DEF UploadMoves
      <4> QED BY <1>3, <2>1, <3>1, <4>1
    <3> QED BY <3>2, <3>3
  <2>4. ASSUME NEW a \in Passers, PassStep(a) PROVE UploadClock'
    BY <1>3, <2>4, PassStepLeaves, PassesTyped
  <2>5. ASSUME NEW p \in Procs \cup {Elsewhere}, Restart(p) PROVE UploadClock'
    BY <1>3, <2>1, <2>5, RestartUploads
  <2> QED BY <1>3, <2>2, <2>3, <2>4, <2>5, StepCases
<1> QED BY <1>1, <1>2, <1>3 DEF Next

-----------------------------------------------------------------------------
(* What one step does to a pass and its eraser.                            *)

PassStarts(e) ==
    /\ e \in Erasers
    /\ \/ eraser[e].pc = "objects" /\ eraser'[e].pc = "passing"
       \/ eraser[e].pc = "leaving" /\ eraser'[e].pc = "emptying"
    /\ pass[e].pc = "no" /\ pass'[e].pc = "deleting" /\ pass'[e].startedAt = now
    /\ record'.on /\ record'.requestedAt = now
    /\ older' = {w \in Works : Begun(w)}
    /\ UNCHANGED objects

PassRuns(a) ==
    /\ pass[a].pc = "deleting" /\ pass'[a].pc \in {"emptied", "failed"}
    /\ pass'[a].startedAt = pass[a].startedAt
    /\ objects' \subseteq objects /\ (pass'[a].pc = "emptied" => objects' = {})
    /\ UNCHANGED <<record, eraser, older>>

PassOver(a) ==
    /\ pass[a].pc \in {"emptied", "failed"} /\ pass'[a].pc = "no"
    /\ UNCHANGED <<objects, older>>
    /\ a = Sweeper => UNCHANGED eraser
    /\ a \in Erasers => eraser'[a].pc \notin {"passing", "emptying", "objects", "leaving"}

PassRecorded(a) ==
    /\ PassOver(a)
    /\ a \in Erasers /\ eraser'[a].pc = "removing" =>
          eraser[a].pc = "emptying" /\ eraser'[a].stamp = now
    /\ \/ /\ pass[a].pc = "emptied" /\ record.on
          /\ record.requestedAt + Grace <= pass[a].startedAt
          /\ ~record'.on
       \/ record'.on = record.on /\ record'.requestedAt = record.requestedAt

PassLost(a) ==
    /\ PassOver(a)
    /\ a \in Erasers => eraser'[a].pc # "removing"
    /\ UNCHANGED record

PassSwept(a) ==
    /\ a = Sweeper /\ record.on
    /\ UNCHANGED <<record, eraser, older, objects>>
    /\ \/ pass'[a].pc = "listed"
       \/ pass[a].pc = "listed" /\ pass'[a].pc = "deleting" /\ pass'[a].startedAt = now

PassMoves(a) == PassStarts(a) \/ PassRuns(a) \/ PassRecorded(a) \/ PassLost(a) \/ PassSwept(a)

LEMMA PassStepOthers ==
    ASSUME TypeOK, NEW a \in Passers, PassStep(a)
    PROVE  /\ \A b \in Passers : b # a => pass'[b] = pass[b]
           /\ \A e \in Erasers : e # a => eraser'[e] = eraser[e]
<1>1. \A b \in Passers : b # a => pass'[b] = pass[b]
  <2>1. DOMAIN pass = Passers /\ Passes(a)
    BY PurgeFields, PassStepLeaves
  <2> QED BY <2>1 DEF Passes, markPurgePending, PassDeletes, PassFails, recordPurgePassSucceeded,
          recordPurgePassFailed, PassUnrecorded, duePurges, SweepStartsPass, Passing, PassEnds
<1>2. \A e \in Erasers : e # a => eraser'[e] = eraser[e]
  <2>1. DOMAIN eraser = Erasers
    BY Domains DEF TypeOK, Typed
  <2> QED BY <2>1 DEF PassStep, StartsPass, RunsPass, RecordsPass, LosesOutcome, SweepsObjects,
          ObjectsStart, ObjectsDone, FinishFails, At, Goes, wipeVars
<1> QED BY <1>1, <1>2

LEMMA PassStepMoves ==
    ASSUME TypeOK, Recorded, NEW a \in Passers, PassStep(a)
    PROVE  PassMoves(a)
<1>0. /\ DOMAIN pass = Passers /\ DOMAIN eraser = Erasers /\ Sweeper \notin Erasers
      /\ Typed
  BY PurgeFields, Domains DEF TypeOK, Typed
<1>0a. pass[a] = [pc |-> pass[a].pc, startedAt |-> pass[a].startedAt]
  BY PurgeParts DEF TypeOK
<1>1. CASE a \in Erasers /\ StartsPass(a)
  <2>1. /\ eraser[a].pc \in {"objects", "leaving"}
        /\ eraser'[a].pc = IF eraser[a].pc = "objects" THEN "passing" ELSE "emptying"
    BY <1>0, <1>1 DEF StartsPass, ObjectsStart, Goes
  <2>2. /\ pass[a].pc = "no" /\ pass'[a] = [pc |-> "deleting", startedAt |-> now]
        /\ record' = [on |-> TRUE, requestedAt |-> now, dueAt |-> now]
        /\ UNCHANGED objects
    BY <1>0, <1>1 DEF StartsPass, markPurgePending, Passing
  <2>3. older' = {w \in Works : Begun(w)}
    BY <1>1 DEF StartsPass, Begun
  <2> QED BY <1>1, <2>1, <2>2, <2>3 DEF PassStarts, PassMoves
<1>2. CASE RunsPass(a)
  <2>1. UNCHANGED <<eraser, older>>
    BY <1>2 DEF RunsPass, wipeVars, ghosts
  <2>2. CASE PassDeletes(a)
    <3>1. pass'[a] = [pass[a] EXCEPT !.pc = "emptied"] /\ pass[a].pc = "deleting"
      BY <1>0, <2>2 DEF PassDeletes
    <3>2. pass'[a] = [pc |-> "emptied", startedAt |-> pass[a].startedAt]
      BY <1>0a, <3>1
    <3> QED BY <2>1, <2>2, <3>1, <3>2 DEF PassDeletes, PassRuns, PassMoves
  <2>3. CASE PassFails(a)
    <3>1. pass'[a] = [pass[a] EXCEPT !.pc = "failed"] /\ pass[a].pc = "deleting"
      BY <1>0, <2>3 DEF PassFails
    <3>2. pass'[a] = [pc |-> "failed", startedAt |-> pass[a].startedAt]
      BY <1>0a, <3>1
    <3> QED BY <2>1, <2>3, <3>1, <3>2 DEF PassFails, PassRuns, PassMoves
  <2> QED BY <1>2, <2>2, <2>3 DEF RunsPass
<1>3. CASE RecordsPass(a)
  <2>1. /\ UNCHANGED older
        /\ a = Sweeper => UNCHANGED eraser
        /\ a # Sweeper => ObjectsDone(a)
    BY <1>3 DEF RecordsPass, wipeVars, ghosts
  <2>2. /\ pass[a].pc \in {"emptied", "failed"} /\ pass'[a].pc = "no"
        /\ UNCHANGED objects
    BY <1>0, <1>3 DEF RecordsPass, recordPurgePassSucceeded, recordPurgePassFailed, PassEnds, NoPass
  <2>3. a \in Erasers => /\ eraser'[a].pc \in {"purge", "removing"}
                         /\ eraser'[a].pc = "removing" =>
                               eraser[a].pc = "emptying" /\ eraser'[a].stamp = now
    BY <1>0, <2>1 DEF ObjectsDone, At
  <2>4. PassOver(a)
    BY <2>1, <2>2, <2>3 DEF PassOver
  <2>5. ASSUME NEW d \in Nat
        PROVE  /\ [record EXCEPT !.dueAt = d].on = record.on
               /\ [record EXCEPT !.dueAt = d].requestedAt = record.requestedAt
    <3>1. [record EXCEPT !.dueAt = d] =
             [on |-> record.on, requestedAt |-> record.requestedAt, dueAt |-> d]
      BY RecordUpdates
    <3> QED BY <3>1
  <2>6. CASE recordPurgePassSucceeded(a)
    <3>1. pass[a].startedAt \in Nat /\ Grace \in Nat /\ record.requestedAt \in Nat
      BY PurgeFields, PurgeAssumption
    <3>2. pass[a].startedAt + Grace \in Nat
      BY <3>1
    <3>3. \/ record.on /\ record.requestedAt <= pass[a].startedAt - Grace /\ record' = NoRecord
          \/ record' = [record EXCEPT !.dueAt = pass[a].startedAt + Grace]
          \/ record' = record
      BY <2>6 DEF recordPurgePassSucceeded
    <3>4. pass[a].pc = "emptied"
      BY <2>6 DEF recordPurgePassSucceeded
    <3>5. record.requestedAt <= pass[a].startedAt - Grace =>
             record.requestedAt + Grace <= pass[a].startedAt
      BY <3>1
    <3>6. \/ record.on /\ record.requestedAt + Grace <= pass[a].startedAt /\ ~record'.on
          \/ record'.on = record.on /\ record'.requestedAt = record.requestedAt
      <4>1. ~NoRecord.on
        BY DEF NoRecord
      <4>2. CASE record' = NoRecord /\ record.on /\ record.requestedAt <= pass[a].startedAt - Grace
        BY <3>5, <4>1, <4>2
      <4>3. CASE record' = [record EXCEPT !.dueAt = pass[a].startedAt + Grace]
        <5>1. PICK d \in Nat : d = pass[a].startedAt + Grace
          BY <3>2
        <5>2. record' = [record EXCEPT !.dueAt = d]
          BY <4>3, <5>1
        <5> QED BY <2>5, <5>2
      <4> QED BY <3>3, <4>2, <4>3
    <3> QED BY <2>3, <2>4, <3>4, <3>6 DEF PassRecorded, PassMoves
  <2>7. CASE recordPurgePassFailed(a)
    <3>1. now + Backoff \in Nat
      BY PurgeFields, PurgeAssumption
    <3>2. record'.on = record.on /\ record'.requestedAt = record.requestedAt
      BY <2>5, <2>7, <3>1 DEF recordPurgePassFailed
    <3> QED BY <2>3, <2>4, <3>2 DEF PassRecorded, PassMoves
  <2> QED BY <1>3, <2>6, <2>7 DEF RecordsPass
<1>4. CASE LosesOutcome(a)
  <2>1. UNCHANGED <<older, record, objects>> /\ pass[a].pc \in {"emptied", "failed"} /\ pass'[a].pc = "no"
    BY <1>0, <1>4 DEF LosesOutcome, PassUnrecorded, PassEnds, NoPass, ghosts
  <2>2. IF a = Sweeper THEN UNCHANGED eraser ELSE FinishFails(a)
    BY <1>4 DEF LosesOutcome, wipeVars
  <2>3. a \in Erasers => eraser'[a].pc = "idle"
    BY <1>0, <2>2 DEF FinishFails, Goes
  <2> QED BY <2>1, <2>2, <2>3 DEF PassOver, PassLost, PassMoves
<1>5. CASE a = Sweeper /\ SweepsObjects
  <2>1. UNCHANGED <<eraser, older>>
    BY <1>5 DEF SweepsObjects, wipeVars, ghosts
  <2>2. CASE duePurges
    <3>1. pass'[a] = [pass[a] EXCEPT !.pc = "listed"]
      BY <1>0, <1>5, <2>2 DEF duePurges
    <3>2. pass'[a] = [pc |-> "listed", startedAt |-> pass[a].startedAt]
      BY <1>0a, <3>1
    <3> QED BY <1>5, <2>1, <2>2, <3>2 DEF duePurges, PassSwept, PassMoves
  <2>3. CASE SweepStartsPass
    <3>1. pass'[a] = [pc |-> "deleting", startedAt |-> now]
      BY <1>0, <1>5, <2>3 DEF SweepStartsPass, Passing
    <3>2. record.on
      BY <2>3 DEF SweepStartsPass, Recorded
    <3> QED BY <1>5, <2>1, <2>3, <3>1, <3>2 DEF SweepStartsPass, PassSwept, PassMoves
  <2> QED BY <1>5, <2>2, <2>3 DEF SweepsObjects
<1> QED BY <1>1, <1>2, <1>3, <1>4, <1>5 DEF PassStep

LEMMA RestartPasses ==
    ASSUME NEW p \in Procs \cup {Elsewhere}, Restart(p), NEW a \in Passers
    PROVE  \/ UNCHANGED pass[a] /\ (a \in Erasers => UNCHANGED eraser[a])
           \/ pass'[a].pc = "no" /\ (a \in Erasers => eraser'[a].pc = "idle")
<1>1. /\ pass'[a] = IF Home[a] = p THEN NoPass ELSE pass[a]
      /\ a \in Erasers => eraser'[a] = IF Home[a] = p THEN Idle ELSE eraser[a]
  <2>1. /\ WipeRestart(p)
        /\ PurgeRestart({w \in Works : work[w].proc = p}, {b \in Passers : Home[b] = p})
    BY RestartLeaves
  <2>2. pass'[a] = IF a \in {b \in Passers : Home[b] = p} THEN NoPass ELSE pass[a]
    BY <2>1 DEF PurgeRestart
  <2>3. a \in Erasers => eraser'[a] = IF Home[a] = p THEN Idle ELSE eraser[a]
    BY <2>1 DEF WipeRestart
  <2> QED BY <2>2, <2>3
<1> QED BY <1>1 DEF NoPass, Idle

LEMMA Numbers ==
    ASSUME TypeOK
    PROVE  /\ now \in Nat /\ Grace \in Nat /\ PassMax \in Nat /\ UploadMax \in Nat
           /\ Gap \in Nat /\ Fence \in Nat
           /\ 0 < Grace /\ UploadMax < Grace /\ PassMax + Gap < Grace /\ PassMax < Grace /\ Gap < Fence
           /\ record.requestedAt \in Nat /\ record.on \in BOOLEAN /\ wipe.purgedAt \in Nat
           /\ \A a \in Passers : pass[a].startedAt \in Nat
           /\ \A w \in Works : work[w].began \in Nat
           /\ \A e \in Erasers : eraser[e].stamp \in Nat
<1>1. /\ Grace \in Nat /\ PassMax \in Nat /\ UploadMax \in Nat /\ Gap \in Nat /\ Fence \in Nat
      /\ Refresh \in Nat
      /\ UploadMax < Grace /\ PassMax + Gap < Grace /\ Refresh + Gap < Fence
  BY PurgeAssumption, WipeAssumption, ErasureAssumption
<1>2. 0 < Grace /\ PassMax < Grace /\ Gap < Fence
  BY <1>1
<1>3. Typed
  BY DEF TypeOK, Typed
<1> QED BY <1>1, <1>2, <1>3, PurgeFields, Fields

LEMMA PassClockStep ==
    ASSUME TypeOK, Recorded, PassClock, [Next]_vars
    PROVE  PassClock'
<1> USE DEF PassClock, Active
<1>1. CASE UNCHANGED vars
  BY <1>1 DEF vars, purgeVars
<1>2. CASE Tick
  <2>1. /\ now' = now + 1 /\ UNCHANGED pass
        /\ \A a \in Passers : pass[a].pc \notin {"no", "listed"} => now < pass[a].startedAt + PassMax
    BY <1>2 DEF Tick, Ticks, PassDeadlines, purgeVars
  <2> QED BY <2>1, Numbers
<1>3. CASE Steps /\ UNCHANGED now
  <2>1. CASE FenceOnly
    BY <1>3, <2>1, FenceOnlyLeaves
  <2>2. ASSUME NEW w \in Works, UploadStep(w) PROVE PassClock'
    BY <1>3, <2>2, UploadStepLeaves, UploadsTyped
  <2>3. ASSUME NEW a \in Passers, PassStep(a) PROVE PassClock'
    <3>1. Active(a)' => pass'[a].startedAt = now \/ (Active(a) /\ pass'[a].startedAt = pass[a].startedAt)
      BY <2>3, PassStepMoves DEF PassMoves, PassStarts, PassRuns, PassRecorded, PassLost, PassOver, PassSwept
    <3> QED BY <1>3, <2>3, <3>1, PassStepOthers, Numbers
  <2>4. ASSUME NEW p \in Procs \cup {Elsewhere}, Restart(p) PROVE PassClock'
    BY <1>3, <2>4, RestartPasses
  <2> QED BY <1>3, <2>1, <2>2, <2>3, <2>4, StepCases
<1> QED BY <1>1, <1>2, <1>3 DEF Next

LEMMA PassOwnerStep ==
    ASSUME TypeOK, Recorded, PassOwner, [Next]_vars
    PROVE  PassOwner'
<1> USE DEF PassOwner, Active
<1>0. Erasers \subseteq Passers /\ Sweeper \notin Erasers /\ DOMAIN eraser = Erasers
  BY PurgeFields, Domains DEF TypeOK, Typed
<1>1. CASE UNCHANGED vars \/ Tick
  BY <1>1 DEF vars, Tick, wipeVars, purgeVars
<1>3. CASE Steps /\ UNCHANGED now
  <2>1. CASE FenceOnly
    <3>1. UNCHANGED pass
      BY <2>1, FenceOnlyLeaves
    <3>2. ASSUME NEW e \in Erasers, NEW pc \in EraserPCs \ {"passing", "emptying", "removing"},
                 NEW s \in Times, FenceMove(e, pc, s)
          PROVE  PassOwner'
      BY <1>0, <3>1, <3>2 DEF FenceMove
    <3> QED BY <2>1, <3>1, <3>2, FenceOnlyErasers
  <2>2. ASSUME NEW w \in Works, UploadStep(w) PROVE PassOwner'
    BY <2>2, UploadStepLeaves, UploadsTyped
  <2>3. ASSUME NEW a \in Passers, PassStep(a) PROVE PassOwner'
    <3>1. a \in Erasers => IF eraser'[a].pc \in {"passing", "emptying"} THEN Active(a)' ELSE pass'[a].pc = "no"
      BY <1>0, <2>3, PassStepMoves DEF PassMoves, PassStarts, PassRuns, PassRecorded, PassLost, PassOver, PassSwept
    <3> QED BY <1>0, <2>3, <3>1, PassStepOthers
  <2>4. ASSUME NEW p \in Procs \cup {Elsewhere}, Restart(p) PROVE PassOwner'
    BY <1>0, <2>4, RestartPasses
  <2> QED BY <1>3, <2>1, <2>2, <2>3, <2>4, StepCases
<1> QED BY <1>1, <1>3 DEF Next

LEMMA RecordedStep ==
    ASSUME TypeOK, EraserClock, PassClock, PassOwner, Recorded, [Next]_vars
    PROVE  Recorded'
<1>0. Erasers \subseteq Passers /\ Sweeper \in Passers /\ Sweeper \notin Erasers /\ DOMAIN eraser = Erasers
  BY PurgeFields, Domains DEF TypeOK, Typed
<1>1. CASE UNCHANGED vars
  BY <1>1 DEF vars, wipeVars, purgeVars, Recorded
<1>2. CASE Tick
  BY <1>2, Numbers DEF Tick, Ticks, wipeVars, purgeVars, Recorded
<1>3. CASE Steps /\ UNCHANGED now
  <2>1. CASE FenceOnly
    <3>1. UNCHANGED <<record, pass>>
      BY <2>1, FenceOnlyLeaves
    <3>2. ASSUME NEW e \in Erasers, NEW pc \in EraserPCs \ {"passing", "emptying", "removing"},
                 NEW s \in Times, FenceMove(e, pc, s)
          PROVE  Recorded'
      BY <1>0, <1>3, <3>1, <3>2 DEF FenceMove, Recorded
    <3> QED BY <1>3, <2>1, <3>1, <3>2, FenceOnlyErasers DEF Recorded
  <2>2. ASSUME NEW w \in Works, UploadStep(w) PROVE Recorded'
    BY <1>3, <2>2, UploadStepLeaves, UploadsTyped DEF Recorded
  <2>3. ASSUME NEW a \in Passers, PassStep(a) PROVE Recorded'
    <3>1. /\ \A b \in Passers : b # a => pass'[b] = pass[b]
          /\ \A e \in Erasers : e # a => eraser'[e] = eraser[e]
      BY <2>3, PassStepOthers
    <3>2. CASE PassStarts(a)
      BY <1>0, <1>3, <3>1, <3>2, Numbers DEF PassStarts, Recorded
    <3>3. CASE PassRuns(a)
      <4>1. pass[a].pc # "no"
        BY <3>3 DEF PassRuns
      <4> QED BY <1>0, <1>3, <3>1, <3>3, <4>1 DEF PassRuns, Recorded
    <3>4. CASE PassLost(a)
      BY <1>0, <1>3, <3>1, <3>4 DEF PassLost, PassOver, Recorded
    <3>5. CASE PassSwept(a)
      BY <1>0, <1>3, <3>1, <3>5 DEF PassSwept, Recorded
    <3>6. CASE PassRecorded(a) /\ record'.on = record.on /\ record'.requestedAt = record.requestedAt
      <4>1. ASSUME a \in Erasers, eraser'[a].pc = "removing"
            PROVE  record.on /\ eraser'[a].stamp <= record.requestedAt + PassMax
        <5>1. eraser[a].pc = "emptying" /\ eraser'[a].stamp = now
          BY <3>6, <4>1 DEF PassRecorded
        <5>2. record.on /\ pass[a].startedAt <= record.requestedAt
          BY <4>1, <5>1 DEF Recorded
        <5>3. now <= pass[a].startedAt + PassMax
          BY <1>0, <4>1, <5>1 DEF PassOwner, PassClock
        <5>4. pass[a].startedAt \in Nat
          BY <1>0, Numbers
        <5> QED BY <5>1, <5>2, <5>3, <5>4, Numbers
      <4> QED BY <1>0, <1>3, <3>1, <3>6, <4>1 DEF PassRecorded, PassOver, Recorded
    <3>7. CASE /\ PassRecorded(a)
               /\ pass[a].pc = "emptied" /\ record.on
               /\ record.requestedAt + Grace <= pass[a].startedAt
               /\ ~record'.on
      <4>1. record.requestedAt + Grace <= now
        <5>1. pass[a].startedAt <= now
          BY <3>7 DEF PassClock, Active
        <5>2. pass[a].startedAt \in Nat
          BY Numbers
        <5> QED BY <3>7, <5>1, <5>2, Numbers
      <4>2. ASSUME NEW e \in Erasers PROVE eraser[e].pc \notin {"passing", "emptying", "removing"}
        <5>1. ASSUME eraser[e].pc \in {"passing", "emptying"} PROVE FALSE
          <6>1. pass[e].startedAt <= record.requestedAt
            BY <5>1 DEF Recorded
          <6>2. now <= pass[e].startedAt + PassMax
            BY <1>0, <5>1 DEF PassOwner, PassClock
          <6>3. pass[e].startedAt \in Nat
            BY <1>0, Numbers
          <6> QED BY <4>1, <6>1, <6>2, <6>3, Numbers
        <5>2. ASSUME eraser[e].pc = "removing" PROVE FALSE
          <6>1. eraser[e].stamp <= record.requestedAt + PassMax
            BY <5>2 DEF Recorded
          <6>2. now <= eraser[e].stamp + Gap
            BY <5>2 DEF EraserClock
          <6>3. eraser[e].stamp \in Nat
            BY Numbers
          <6> QED BY <4>1, <6>1, <6>2, <6>3, Numbers
        <5> QED BY <5>1, <5>2
      <4>3. a = Sweeper
        BY <1>0, <3>7, <4>2 DEF PassOwner, Passers
      <4> QED BY <1>0, <1>3, <3>1, <3>7, <4>2, <4>3 DEF PassRecorded, PassOver, Recorded
    <3> QED BY <2>3, <3>2, <3>3, <3>4, <3>5, <3>6, <3>7, PassStepMoves DEF PassMoves, PassRecorded
  <2>4. ASSUME NEW p \in Procs \cup {Elsewhere}, Restart(p) PROVE Recorded'
    <3>1. UNCHANGED record
      BY <2>4, RestartLeaves
    <3> QED BY <1>0, <1>3, <2>4, <3>1, RestartPasses DEF Recorded
  <2> QED BY <1>3, <2>1, <2>2, <2>3, <2>4, StepCases
<1> QED BY <1>1, <1>2, <1>3 DEF Next

(* The record ends only after the grace of its latest request, and begins  *)
(* only with a pass.                                                       *)
LEMMA RecordMoves ==
    ASSUME TypeOK, PassClock, Recorded, Steps
    PROVE  \/ UNCHANGED older /\ record'.on = record.on /\ record'.requestedAt = record.requestedAt
           \/ /\ record.on /\ ~record'.on /\ record.requestedAt + Grace <= now
              /\ UNCHANGED <<upload, objects, older>>
              /\ \E a \in Passers :
                    pass[a].pc = "emptied" /\ record.requestedAt + Grace <= pass[a].startedAt
           \/ \E e \in Erasers : PassStep(e) /\ PassStarts(e)
<1>1. CASE FenceOnly
  BY <1>1, FenceOnlyLeaves
<1>2. ASSUME NEW w \in Works, UploadStep(w) PROVE UNCHANGED <<older, record>>
  BY <1>2, UploadStepLeaves, UploadsTyped
<1>3. ASSUME NEW a \in Passers, PassStep(a)
      PROVE  \/ UNCHANGED older /\ record'.on = record.on /\ record'.requestedAt = record.requestedAt
             \/ /\ record.on /\ ~record'.on /\ record.requestedAt + Grace <= now
                /\ UNCHANGED <<upload, objects, older>>
                /\ pass[a].pc = "emptied" /\ record.requestedAt + Grace <= pass[a].startedAt
             \/ PassStarts(a)
  <2>1. CASE PassRuns(a) \/ PassLost(a) \/ PassSwept(a)
    BY <2>1 DEF PassRuns, PassLost, PassOver, PassSwept
  <2>2. CASE PassRecorded(a)
    <3>1. CASE pass[a].pc = "emptied" /\ record.requestedAt + Grace <= pass[a].startedAt
      <4>1. pass[a].startedAt <= now /\ pass[a].startedAt \in Nat
        BY <3>1, Numbers DEF PassClock, Active
      <4>2. record.requestedAt + Grace <= now
        BY <3>1, <4>1, Numbers
      <4>3. UNCHANGED <<upload, objects, older>>
        BY <1>3, <2>2, PassStepLeaves, PassesTyped DEF PassRecorded, PassOver
      <4> QED BY <2>2, <3>1, <4>2, <4>3 DEF PassRecorded
    <3> QED BY <2>2, <3>1 DEF PassRecorded, PassOver
  <2> QED BY <1>3, <2>1, <2>2, PassStepMoves DEF PassMoves
<1>4. ASSUME NEW p \in Procs \cup {Elsewhere}, Restart(p) PROVE UNCHANGED <<older, record>>
  BY <1>4, RestartLeaves
<1> QED BY <1>1, <1>2, <1>3, <1>4, StepCases DEF PassStarts

-----------------------------------------------------------------------------
(* The uploads that had begun, and the bucket.                             *)

LEMMA BegunStays ==
    ASSUME TypeOK, Recorded, Steps, NEW w \in Works
    PROVE  /\ Begun(w) => Begun(w)'
           /\ Begun(w)' => Begun(w) \/ (UploadStep(w) /\ Starts(w) /\ alive /\ ~record.on)
<1> USE DEF Begun
<1>1. CASE FenceOnly
  BY <1>1, FenceOnlyLeaves
<1>2. ASSUME NEW v \in Works, UploadStep(v), v # w PROVE upload'[w] = upload[w]
  BY <1>2, UploadStepOthers
<1>3. CASE UploadStep(w)
  BY <1>3, UploadStepMoves DEF UploadMoves
<1>4. ASSUME NEW a \in Passers, PassStep(a) PROVE UNCHANGED upload
  BY <1>4, PassStepLeaves, PassesTyped
<1>5. ASSUME NEW p \in Procs \cup {Elsewhere}, Restart(p)
      PROVE  upload'[w] = upload[w] \/ (Begun(w)' /\ Begun(w))
  BY <1>5, RestartUploads
<1> QED BY <1>1, <1>2, <1>3, <1>4, <1>5, StepCases

LEMMA OlderStep ==
    ASSUME TypeOK, TypeOK', WorkClock, UploadClock, PassClock, Recorded, Older, [Next]_vars
    PROVE  Older'
<1>1. CASE UNCHANGED vars \/ Tick
  BY <1>1 DEF vars, Tick, wipeVars, purgeVars, ghosts, Older, Begun
<1>3. CASE Steps /\ UNCHANGED now
  <2>0. [WipeNext]_wv /\ Typed /\ older \subseteq Works
    BY StepsOfTheFence DEF TypeOK, Typed
  <2>1. \A w \in Works : Begun(w) => work'[w].began = work[w].began /\ Begun(w)'
    BY <1>3, <2>0, BeganStays, BegunStays DEF UploadClock
  <2>2. \A w \in Works : Begun(w)' => Begun(w) \/ (UploadStep(w) /\ Starts(w) /\ alive /\ ~record.on)
    BY <1>3, BegunStays
  <2>3. CASE \E e \in Erasers : PassStep(e) /\ PassStarts(e)
    <3>1. PICK e \in Erasers : PassStep(e) /\ PassStarts(e)
      BY <2>3
    <3>2. UNCHANGED <<upload, work>> /\ e \in Passers
      BY <3>1, PassStepLeaves, PassesTyped, PurgeFields
    <3>3. older' = {w \in Works : Begun(w)} /\ record'.requestedAt = now
      BY <3>1 DEF PassStarts
    <3>4. \A w \in Works : work[w].began <= now
      BY DEF WorkClock
    <3> QED BY <3>2, <3>3, <3>4 DEF Older, Begun
  <2>4. CASE UNCHANGED older /\ (record'.on => record.on /\ record'.requestedAt = record.requestedAt)
    <3>1. ASSUME record'.on \/ ~alive', NEW w \in Works, Begun(w)' PROVE w \in older
      <4>1. CASE Begun(w)
        <5>1. CASE alive' = alive
          BY <2>4, <3>1, <4>1, <5>1 DEF Older
        <5>2. CASE alive' # alive
          <6>1. CASE FenceOnly
            BY <4>1, <5>2, <6>1, FenceOnlyWipe DEF Older, Recorded
          <6> QED BY <1>3, <5>2, <6>1, StepCases, UploadStepLeaves, PassStepLeaves, RestartLeaves
        <5> QED BY <5>1, <5>2
      <4>2. CASE UploadStep(w) /\ alive /\ ~record.on
        BY <2>4, <3>1, <4>2, UploadStepLeaves
      <4> QED BY <2>2, <3>1, <4>1, <4>2
    <3>2. ASSUME NEW w \in older
          PROVE  Begun(w)' /\ (record'.on => work'[w].began <= record'.requestedAt)
      BY <2>0, <2>1, <2>4, <3>2 DEF Older
    <3> QED BY <2>4, <3>1, <3>2 DEF Older
  <2> QED BY <1>3, <2>3, <2>4, RecordMoves
<1> QED BY <1>1, <1>3 DEF Next

(* Past the grace of the latest request, no upload that is older is still  *)
(* running.                                                                *)
LEMMA OlderLanded ==
    ASSUME TypeOK, UploadClock, Older, record.on, record.requestedAt + Grace <= now,
           NEW w \in Works, InFlight(w)
    PROVE  FALSE
<1>1. w \in older
  BY DEF Older, Begun, InFlight
<1>2. work[w].began <= record.requestedAt
  BY <1>1 DEF Older
<1>3. now <= work[w].began + UploadMax
  BY DEF UploadClock
<1>4. work[w].began \in Nat
  BY Numbers
<1> QED BY <1>2, <1>3, <1>4, Numbers

(* An object is new only when its upload was in flight.                    *)
LEMMA ObjectMoves ==
    ASSUME TypeOK, Steps, NEW w \in Works, w \in objects', w \notin objects
    PROVE  upload[w] \in {"putting", "adrift"} /\ UploadStep(w)
<1>1. CASE FenceOnly
  BY <1>1, FenceOnlyLeaves
<1>2. ASSUME NEW v \in Works, UploadStep(v), v # w PROVE FALSE
  BY <1>2, UploadStepOthers
<1>3. CASE UploadStep(w)
  BY <1>3, UploadStepMoves DEF UploadMoves
<1>4. ASSUME NEW a \in Passers, PassStep(a) PROVE FALSE
  BY <1>4, PassStepLeaves, PassesTyped
<1>5. ASSUME NEW p \in Procs \cup {Elsewhere}, Restart(p) PROVE FALSE
  BY <1>5, RestartLeaves
<1> QED BY <1>1, <1>2, <1>3, <1>4, <1>5, StepCases

LEMMA GroundedStep ==
    ASSUME TypeOK, TypeOK', UploadClock, PassClock, Recorded, Older, Grounded, [Next]_vars
    PROVE  Grounded'
<1>1. CASE UNCHANGED vars \/ Tick
  BY <1>1 DEF vars, Tick, wipeVars, purgeVars, ghosts, Grounded, Begun
<1>3. CASE Steps /\ UNCHANGED now
  <2>0. older \subseteq Works /\ objects \subseteq Works /\ objects' \subseteq Works /\ Erasers \subseteq Passers
    BY PurgeParts, PurgeFields DEF TypeOK, PurgeTypes
  <2>1. \A w \in objects' : Begun(w)'
    <3>1. \A w \in objects' : Begun(w)
      BY <1>3, <2>0, ObjectMoves DEF Grounded, Begun
    <3> QED BY <1>3, <2>0, <3>1, BegunStays
  <2>2. ASSUME ~record'.on, NEW w \in older'
        PROVE  w \notin objects' /\ upload'[w] \notin {"accepted", "putting", "adrift"}
    <3>1. CASE UNCHANGED older /\ ~record.on
      <4>1. w \in Works /\ Begun(w) /\ w \notin objects /\ upload[w] \notin {"accepted", "putting", "adrift"}
        BY <2>0, <2>2, <3>1 DEF Grounded, Older
      <4>2. w \notin objects'
        BY <1>3, <4>1, ObjectMoves
      <4>3. upload'[w] \notin {"accepted", "putting", "adrift"}
        <5>1. CASE FenceOnly
          BY <4>1, <5>1, FenceOnlyLeaves
        <5>2. ASSUME NEW v \in Works, UploadStep(v), v # w PROVE upload'[w] = upload[w]
          BY <4>1, <5>2, UploadStepOthers
        <5>3. ASSUME UploadStep(w) PROVE upload'[w] \notin {"accepted", "putting", "adrift"}
          BY <4>1, <5>3, UploadStepMoves DEF UploadMoves, Begun
        <5>4. ASSUME NEW a \in Passers, PassStep(a) PROVE UNCHANGED upload
          BY <5>4, PassStepLeaves, PassesTyped
        <5>5. ASSUME NEW p \in Procs \cup {Elsewhere}, Restart(p)
              PROVE  \/ upload'[w] = upload[w] \/ upload'[w] = "gone"
                     \/ upload'[w] = "adrift" /\ upload[w] = "putting"
          BY <4>1, <5>5, RestartUploads
        <5> QED BY <1>3, <4>1, <5>1, <5>2, <5>3, <5>4, <5>5, StepCases
      <4> QED BY <4>2, <4>3
    <3>2. CASE /\ record.on /\ record.requestedAt + Grace <= now
               /\ UNCHANGED <<upload, objects, older>>
               /\ \E a \in Passers :
                     pass[a].pc = "emptied" /\ record.requestedAt + Grace <= pass[a].startedAt
      <4>1. w \notin objects
        BY <2>2, <3>2 DEF Grounded
      <4>2. ~InFlight(w)
        BY <2>0, <2>2, <3>2, OlderLanded
      <4> QED BY <3>2, <4>1, <4>2 DEF InFlight
    <3> QED BY <1>3, <2>2, <3>1, <3>2, RecordMoves DEF PassStarts
  <2>3. ASSUME NEW a \in Passers, pass'[a].pc = "emptied", record'.on,
               record'.requestedAt + Grace <= pass'[a].startedAt
        PROVE  objects' \cap older' = {}
    <3>1. CASE PassStep(a)
      <4>1. PassRuns(a)
        BY <2>3, <3>1, PassStepMoves DEF PassMoves, PassStarts, PassRecorded, PassLost, PassOver, PassSwept
      <4> QED BY <2>3, <4>1 DEF PassRuns
    <3>2. CASE ~PassStep(a)
      <4>1. pass'[a] = pass[a]
        <5>1. CASE FenceOnly
          BY <5>1, FenceOnlyLeaves
        <5>2. ASSUME NEW v \in Works, UploadStep(v) PROVE UNCHANGED pass
          BY <5>2, UploadStepLeaves, UploadsTyped
        <5>3. ASSUME NEW b \in Passers, PassStep(b) PROVE pass'[a] = pass[a]
          BY <3>2, <5>3, PassStepOthers
        <5>4. ASSUME NEW p \in Procs \cup {Elsewhere}, Restart(p) PROVE pass'[a] = pass[a]
          BY <2>3, <5>4, RestartPasses
        <5> QED BY <1>3, <5>1, <5>2, <5>3, <5>4, StepCases
      <4>2. pass[a].startedAt <= now /\ pass[a].startedAt \in Nat
        BY <2>3, <4>1, Numbers DEF PassClock, Active
      <4>3. CASE UNCHANGED older /\ record.on /\ record'.requestedAt = record.requestedAt
        <5>1. objects \cap older = {}
          BY <2>3, <4>1, <4>3 DEF Grounded
        <5>2. record.requestedAt + Grace <= now
          BY <2>3, <4>1, <4>2, <4>3, Numbers
        <5>3. \A w \in Works : ~InFlight(w)
          BY <4>3, <5>2, OlderLanded
        <5>4. objects' \subseteq objects
          BY <1>3, <2>0, <5>3, ObjectMoves DEF InFlight
        <5> QED BY <4>3, <5>1, <5>4
      <4>4. CASE record'.requestedAt = now
        BY <2>3, <4>1, <4>2, <4>4, Numbers
      <4> QED BY <1>3, <2>3, <4>3, <4>4, RecordMoves DEF PassStarts
    <3> QED BY <3>1, <3>2
  <2> QED BY <2>1, <2>2, <2>3 DEF Grounded
<1> QED BY <1>1, <1>3 DEF Next

-----------------------------------------------------------------------------
(* The files that are kept.                                                *)

LEMMA ErasingStep ==
    ASSUME TypeOK, Recorded, EraserClock, Erasing, [Next]_vars
    PROVE  Erasing'
<1>0. Erasers \subseteq Passers /\ DOMAIN eraser = Erasers
  BY PurgeFields, Domains DEF TypeOK, Typed
<1>1. CASE UNCHANGED vars \/ Tick
  BY <1>1 DEF vars, Tick, wipeVars, ghosts, Erasing
<1>3. CASE Steps /\ UNCHANGED now
  <2>1. CASE FenceOnly
    <3>1. doomed => doomed'
      BY <2>1, FenceOnlyWipe
    <3>2. ASSUME NEW e \in Erasers, UNCHANGED eraser[e]
          PROVE  /\ eraser'[e].pc \in {"leaving", "emptying", "removing"} => doomed'
                 /\ eraser'[e].pc = "objects" =>
                       /\ doomed' \/ wipe'.st # "none"
                       /\ wipe'.st = "purged" => eraser'[e].stamp <= wipe'.purgedAt
      <4>1. eraser[e].pc = "objects" => eraser[e].stamp <= now
        BY DEF EraserClock
      <4> QED BY <2>1, <3>1, <3>2, <4>1, FenceOnlyWipe DEF Erasing
    <3>3. ASSUME NEW e \in Erasers, NEW pc \in EraserPCs \ {"passing", "emptying", "removing"},
                 NEW s \in Times, FenceMove(e, pc, s)
          PROVE  Erasing'
      <4>1. eraser'[e] = [pc |-> pc, stamp |-> s]
        BY <1>0, <3>3 DEF FenceMove
      <4>2. \A f \in Erasers : f # e => UNCHANGED eraser[f]
        BY <1>0, <3>3 DEF FenceMove
      <4>3. /\ eraser'[e].pc \in {"leaving", "emptying", "removing"} => doomed'
            /\ eraser'[e].pc = "objects" =>
                  /\ doomed' \/ wipe'.st # "none"
                  /\ wipe'.st = "purged" => eraser'[e].stamp <= wipe'.purgedAt
        BY <3>3, <4>1 DEF FenceMove
      <4> QED BY <3>2, <4>2, <4>3 DEF Erasing
    <3> QED BY <2>1, <3>2, <3>3, FenceOnlyErasers DEF Erasing
  <2>2. ASSUME NEW w \in Works, UploadStep(w) PROVE Erasing'
    BY <2>2, UploadStepLeaves DEF Erasing
  <2>3. ASSUME NEW a \in Passers, PassStep(a) PROVE Erasing'
    <3>1. UNCHANGED <<wipe, doomed>>
      BY <2>3, PassStepLeaves
    <3>2. ASSUME a \in Erasers
          PROVE  \/ UNCHANGED eraser[a]
                 \/ /\ eraser'[a].pc # "objects"
                    /\ eraser'[a].pc \in {"leaving", "emptying", "removing"} => doomed
      BY <2>3, <3>2, PassStepMoves
         DEF Erasing, PassMoves, PassStarts, PassRuns, PassRecorded, PassLost, PassOver, PassSwept
    <3> QED BY <2>3, <3>1, <3>2, PassStepOthers DEF Erasing
  <2>4. ASSUME NEW p \in Procs \cup {Elsewhere}, Restart(p) PROVE Erasing'
    <3>1. UNCHANGED <<wipe, doomed>>
      BY <2>4, RestartLeaves
    <3> QED BY <1>0, <2>4, <3>1, RestartPasses DEF Erasing
  <2> QED BY <1>3, <2>1, <2>2, <2>3, <2>4, StepCases
<1> QED BY <1>1, <1>3 DEF Next

(* A file that no erasure is to take was not to be taken before, and no    *)
(* row goes meanwhile.                                                     *)
LEMMA SafeBefore ==
    ASSUME TypeOK, WorkClock, UploadClock, Erasing, Steps, UNCHANGED now,
           NEW w \in Works, Begun(w), Safe(w)'
    PROVE  Safe(w) /\ (FenceOnly => rows \subseteq rows')
<1>1. work'[w].began = work[w].began /\ work[w].began <= now
  <2>1. [WipeNext]_wv /\ Typed
    <3>1. [Next]_vars
      BY DEF Next
    <3> QED BY <3>1, StepsOfTheFence DEF TypeOK, Typed
  <2> QED BY <2>1, BeganStays DEF UploadClock, WorkClock
<1>2. CASE FenceOnly
  <2>1. wipe'.st = "purged" => wipe'.purgedAt # now
    BY <1>1, Numbers DEF Safe
  <2> QED BY <1>1, <1>2, <2>1, FenceOnlyWipe DEF Safe, Erasing
<1>3. CASE ~FenceOnly
  <2>1. UNCHANGED <<wipe, doomed>>
    BY <1>3, StepCases, UploadStepLeaves, PassStepLeaves, RestartLeaves
  <2> QED BY <1>1, <1>3, <2>1 DEF Safe
<1> QED BY <1>2, <1>3

LEMMA KeptRowsStep ==
    ASSUME TypeOK, WorkClock, UploadClock, Erasing, KeptRows, [Next]_vars
    PROVE  KeptRows'
<1>1. CASE UNCHANGED vars \/ Tick
  BY <1>1 DEF vars, Tick, wipeVars, purgeVars, ghosts, KeptRows, Safe
<1>3. CASE Steps /\ UNCHANGED now
  <2> SUFFICES ASSUME NEW w \in Works, upload'[w] \in {"written", "kept"}, Safe(w)'
               PROVE  w \in rows'
    BY DEF KeptRows
  <2>1. Begun(w) => Safe(w) /\ (FenceOnly => rows \subseteq rows')
    BY <1>3, SafeBefore
  <2>2. CASE FenceOnly
    BY <2>1, <2>2, FenceOnlyLeaves DEF KeptRows, Begun
  <2>3. ASSUME NEW v \in Works, UploadStep(v), v # w PROVE w \in rows'
    BY <2>1, <2>3, UploadStepOthers DEF KeptRows, Begun
  <2>4. CASE UploadStep(w)
    BY <2>1, <2>4, UploadStepMoves DEF UploadMoves, KeptRows, Begun
  <2>5. ASSUME NEW a \in Passers, PassStep(a) PROVE w \in rows'
    BY <2>1, <2>5, PassStepLeaves, PassesTyped DEF KeptRows, Begun
  <2>6. ASSUME NEW p \in Procs \cup {Elsewhere}, Restart(p) PROVE w \in rows'
    BY <2>1, <2>6, RestartLeaves, RestartUploads DEF KeptRows, Begun
  <2> QED BY <1>3, <2>2, <2>3, <2>4, <2>5, <2>6, StepCases
<1> QED BY <1>1, <1>3 DEF Next

(* With no purge recorded, no pass runs.                                   *)
LEMMA ObjectsStay ==
    ASSUME TypeOK, PassOwner, Recorded, Steps, ~record.on,
           NEW w \in Works, w \in objects, upload[w] # "discard"
    PROVE  w \in objects'
<1>1. CASE FenceOnly
  BY <1>1, FenceOnlyLeaves
<1>2. ASSUME NEW v \in Works, UploadStep(v), v # w PROVE w \in objects'
  BY <1>2, UploadStepOthers
<1>3. CASE UploadStep(w)
  BY <1>3, UploadStepMoves DEF UploadMoves
<1>4. ASSUME NEW a \in Passers, PassStep(a) PROVE w \in objects'
  <2>1. pass[a].pc # "deleting"
    BY PurgeFields DEF PassOwner, Recorded
  <2> QED BY <1>4, <2>1, PassStepMoves
          DEF PassMoves, PassStarts, PassRuns, PassRecorded, PassLost, PassOver, PassSwept
<1>5. ASSUME NEW p \in Procs \cup {Elsewhere}, Restart(p) PROVE w \in objects'
  BY <1>5, RestartLeaves
<1> QED BY <1>1, <1>2, <1>3, <1>4, <1>5, StepCases

LEMMA UploadAfter ==
    ASSUME TypeOK, Steps, NEW w \in Works, upload'[w] # upload[w]
    PROVE  (UploadMoves(w) /\ UploadStep(w)) \/ upload'[w] \in {"gone", "adrift"}
<1>1. CASE FenceOnly
  BY <1>1, FenceOnlyLeaves
<1>2. ASSUME NEW v \in Works, UploadStep(v), v # w PROVE FALSE
  BY <1>2, UploadStepOthers
<1>3. CASE UploadStep(w)
  BY <1>3, UploadStepMoves
<1>4. ASSUME NEW a \in Passers, PassStep(a) PROVE FALSE
  BY <1>4, PassStepLeaves, PassesTyped
<1>5. ASSUME NEW p \in Procs \cup {Elsewhere}, Restart(p) PROVE upload'[w] \in {"gone", "adrift"}
  BY <1>5, RestartUploads
<1> QED BY <1>1, <1>2, <1>3, <1>4, <1>5, StepCases

LEMMA KeptObjectsStep ==
    ASSUME TypeOK, WorkClock, EraserClock, PurgeClock, UploadClock, PassClock, PassOwner, Recorded,
           Older, Erasing, KeptRows, KeptObjects, [Next]_vars
    PROVE  KeptObjects'
<1>1. CASE UNCHANGED vars \/ Tick
  BY <1>1 DEF vars, Tick, wipeVars, purgeVars, ghosts, KeptObjects, Safe
<1>3. CASE Steps /\ UNCHANGED now
  <2>1. ASSUME NEW w \in Works, upload'[w] \in {"stored", "row", "written"}, ~record'.on
        PROVE  w \in objects'
    <3>1. CASE ~record.on
      <4>1. CASE upload[w] \in {"stored", "row", "written"}
        BY <1>3, <3>1, <4>1, ObjectsStay DEF KeptObjects
      <4>2. CASE upload[w] \notin {"stored", "row", "written"}
        BY <1>3, <2>1, <4>2, UploadAfter DEF UploadMoves
      <4> QED BY <4>1, <4>2
    <3>2. CASE record.on
      <4>1. record.requestedAt + Grace <= now /\ UNCHANGED upload
        BY <1>3, <2>1, <3>2, RecordMoves DEF PassStarts
      <4> QED BY <2>1, <3>2, <4>1, OlderLanded DEF InFlight
    <3> QED BY <3>1, <3>2, PurgeFields
  <2>2. ASSUME NEW w \in Works, upload'[w] = "kept", Safe(w)'
        PROVE  w \in objects' /\ ~record'.on
    <3>1. CASE upload[w] # "kept"
      <4>1. UploadStep(w) /\ upload[w] = "written" /\ ~record.on /\ UNCHANGED objects
        BY <1>3, <2>2, <3>1, UploadAfter DEF UploadMoves
      <4>2. UNCHANGED record
        BY <4>1, UploadStepLeaves, UploadsTyped
      <4> QED BY <4>1, <4>2 DEF KeptObjects
    <3>2. CASE upload[w] = "kept"
      <4>1. Safe(w) /\ w \in objects /\ ~record.on
        BY <1>3, <2>2, <3>2, SafeBefore DEF KeptObjects, Begun
      <4>2. w \in objects'
        BY <1>3, <3>2, <4>1, ObjectsStay
      <4>3. ASSUME NEW e \in Erasers, PassStep(e), PassStarts(e) PROVE FALSE
        <5>1. eraser[e].pc = "objects"
          BY <4>1, <4>3 DEF PassStarts, Erasing, Safe
        <5>2. wipe.st = "purged"
          <6>1. wipe.st \in {"none", "pending", "purged"}
            BY DEF TypeOK, WipeTypes
          <6> QED BY <4>1, <5>1, <6>1 DEF Erasing, Safe
        <5>3. eraser[e].stamp <= wipe.purgedAt /\ now <= eraser[e].stamp + Gap
          BY <5>1, <5>2 DEF Erasing, EraserClock
        <5>4. wipe.purgedAt + Fence <= now
          BY <3>2, <4>1, <5>2 DEF KeptRows, PurgeClock
        <5>5. eraser[e].stamp \in Nat
          BY Numbers
        <5> QED BY <5>3, <5>4, <5>5, Numbers
      <4> QED BY <1>3, <4>1, <4>2, <4>3, RecordMoves
    <3> QED BY <3>1, <3>2
  <2> QED BY <2>1, <2>2 DEF KeptObjects
<1> QED BY <1>1, <1>3 DEF Next

-----------------------------------------------------------------------------
LEMMA PurgeInvInit == ASSUME Init PROVE PurgeInv
<1>1. FenceInv
  BY FenceInit DEF Init
<1>2. TypeOK
  <2>1. 0 \in Times /\ 0 \in 0 .. MaxFaults /\ 0 \in Nat
    BY AccountAssumption DEF Times
  <2>2. record \in Records
    BY <2>1 DEF Init, PurgeInit, NoRecord, Records
  <2>3. upload \in [Works -> UploadPCs] /\ pass \in [Passers -> [pc : PassPCs, startedAt : Times]]
    BY <2>1 DEF Init, PurgeInit, NoPass, UploadPCs, PassPCs
  <2>4. PurgeTypes
    BY <2>2, <2>3, PurgeParts DEF Init, PurgeInit
  <2> QED BY <1>1, <2>1, <2>4 DEF FenceInv, Typed, TypeOK, Init
<1>3. /\ \A w \in Works : upload[w] = "idle"
      /\ \A a \in Passers : pass[a].pc = "no"
      /\ \A e \in Erasers : eraser[e].pc = "idle"
      /\ ~record.on /\ alive /\ older = {} /\ objects = {} /\ Sweeper \in Passers
      /\ Erasers \subseteq Passers
  BY DEF Init, PurgeInit, WipeInit, NoPass, NoRecord, Idle, Passers
<1>4. UploadClock /\ PassClock /\ PassOwner
  BY <1>3 DEF UploadClock, PassClock, PassOwner, Begun, InFlight, Active
<1>5. Recorded /\ Older /\ Grounded
  BY <1>3 DEF Recorded, Older, Grounded, Begun
<1>6. Erasing /\ KeptRows /\ KeptObjects
  BY <1>3 DEF Erasing, KeptRows, KeptObjects
<1> QED BY <1>1, <1>2, <1>4, <1>5, <1>6 DEF PurgeInv

LEMMA PurgeInvStep == ASSUME PurgeInv, [Next]_vars PROVE PurgeInv'
<1> USE DEF PurgeInv
<1>1. FenceInv'
  BY StepsOfTheFence, FenceStep
<1>2. TypeOK'
  BY ErasureTyped
<1>3. WorkClock /\ EraserClock /\ PurgeClock
  BY DEF FenceInv
<1>4. UploadClock' /\ PassClock' /\ PassOwner' /\ Recorded'
  BY <1>3, UploadClockStep, PassClockStep, PassOwnerStep, RecordedStep
<1>5. Older' /\ Grounded'
  BY <1>2, <1>3, OlderStep, GroundedStep
<1>6. Erasing' /\ KeptRows' /\ KeptObjects'
  BY <1>3, ErasingStep, KeptRowsStep, KeptObjectsStep
<1> QED BY <1>1, <1>2, <1>4, <1>5, <1>6

LEMMA ErasureInvariant == Spec => []PurgeInv
<1>1. Init => PurgeInv
  BY PurgeInvInit
<1>2. PurgeInv /\ [Next]_vars => PurgeInv'
  BY PurgeInvStep
<1> QED BY <1>1, <1>2, PTL DEF Spec

(* Every variable keeps its type.                                          *)
THEOREM TypeCorrect == Spec => []TypeOK
<1>1. PurgeInv => TypeOK
  BY DEF PurgeInv
<1> QED BY <1>1, ErasureInvariant, PTL

(* A purge that is over left no object of an upload that had begun when it *)
(* was last asked for.                                                     *)
THEOREM NoOrphans == Spec => []NoOrphanObject
<1>1. PurgeInv => NoOrphanObject
  BY DEF PurgeInv, Grounded, NoOrphanObject
<1> QED BY <1>1, ErasureInvariant, PTL

(* Nothing of a deleted account stays in the bucket once its record ends.  *)
THEOREM DeletionIsComplete == Spec => []NothingStaysBehind
<1>1. ASSUME PurgeInv PROVE NothingStaysBehind
  <2>1. objects \subseteq Works
    BY <1>1 DEF PurgeInv, TypeOK, PurgeTypes
  <2> QED BY <1>1, <2>1 DEF PurgeInv, Grounded, Older, NothingStaysBehind
<1> QED BY <1>1, ErasureInvariant, PTL

(* A file that was answered keeps its row and its object, unless an        *)
(* erasure that came after it took both.                                   *)
THEOREM FilesAreKept == Spec => []KeptFiles
<1>1. PurgeInv => KeptFiles
  BY DEF PurgeInv, KeptRows, KeptObjects, Safe, KeptFiles
<1> QED BY <1>1, ErasureInvariant, PTL

=============================================================================
