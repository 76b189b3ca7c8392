------------------------------- MODULE Erasure -------------------------------
(***************************************************************************)
(* The erasure of an account: the data-wipe fence and the storage purge    *)
(* put together.  An upload is a unit of work that writes its row through  *)
(* the fence; a wipe or a deletion of the account purges the stored        *)
(* objects before the rows (user-deletion.ts).                             *)
(***************************************************************************)
EXTENDS DataWipe, StoragePurge

(* A deletion's first pass is over, and the account gone, within the grace.*)
ASSUME ErasureAssumption == PassMax + Gap < Grace

VARIABLES
    older,    \* the uploads that had begun when the latest purge of the
              \* objects was asked for (ghost)
    doomed    \* the account's deletion was asked for (ghost)

ghosts == <<older, doomed>>
vars == <<now, alive, faults, wipeVars, purgeVars, ghosts>>

Init ==
    /\ now = 0 /\ alive = TRUE /\ faults = 0
    /\ WipeInit
    /\ PurgeInit
    /\ older = {} /\ doomed = FALSE

InFlight(w) == upload[w] \in {"accepted", "putting", "adrift", "stored", "row", "written"}

Tick ==
    /\ Ticks
    /\ PassDeadlines
    /\ \A w \in Works : InFlight(w) => now < work[w].began + UploadMax
    /\ UNCHANGED <<alive, faults, wipeVars, purgeVars, ghosts>>

-----------------------------------------------------------------------------
(* Steps of the fence alone.                                               *)

(* Work that is no upload: a sync, a judgement, a timer.                   *)
WritesOnly(w) ==
    \/ \E p \in Procs : alive /\ WorkBegins(w, p)
    \/ HookAllows(w) \/ HookRejects(w)
    \/ Inserts(w) \/ TriggerRejects(w)

Fenced ==
    /\ \/ \E p \in Procs : LoadReads(p) \/ LoadLands(p)
       \/ \E w \in Works : upload[w] = "row" /\ HookAllows(w)
       \/ \E w \in Works : upload[w] = "idle" /\ WritesOnly(w)
       \/ \E e \in Erasers :
             \/ recordWipeAndRevoke(e) \/ RemembersPending(e) \/ SweepPicks(e)
             \/ ReadsRecord(e) \/ Purges(e) \/ NotPending(e) \/ RemembersPurged(e)
    /\ UNCHANGED <<alive, faults, purgeVars, ghosts>>

AsksToLeave(e) ==
    /\ AsksDeletion(e)
    /\ doomed' = TRUE
    /\ UNCHANGED <<alive, faults, purgeVars, older>>

Leaves(e) ==
    /\ AccountGoes(e)
    /\ UNCHANGED <<faults, purgeVars, ghosts>>

EraserFails(e) ==
    /\ FinishFails(e)
    /\ pass[e].pc = "no"
    /\ UNCHANGED <<alive, purgeVars, ghosts>>

(* Steps of an upload.                                                     *)

UploadStarts(w, p) ==
    /\ UploadBegins(w)
    /\ WorkBegins(w, p)
    /\ UNCHANGED <<alive, faults, ghosts>>

Stores(w) ==
    /\ UploadPuts(w) \/ UploadLands(w) \/ UploadRechecks(w) \/ UploadConfirms(w)
    /\ UNCHANGED <<alive, faults, wipeVars, ghosts>>

WritesRow(w) ==
    /\ \/ RowWritten(w) /\ Inserts(w)
       \/ RowRefused(w) /\ (HookRejects(w) \/ TriggerRejects(w))
    /\ UNCHANGED <<alive, faults, ghosts>>

Withdraws(w) ==
    /\ UploadWithdraws(w)
    /\ RowRemoved(w)
    /\ UNCHANGED <<alive, faults, ghosts>>

Discards(w) ==
    /\ discardKlornUpload(w) \/ DiscardFails(w) \/ UploadFails(w) \/ PutEnds(w)
    /\ UNCHANGED <<alive, wipeVars, ghosts>>

(* Steps of a pass.                                                        *)

StartsPass(e) ==
    /\ ObjectsStart(e)
    /\ markPurgePending(e)
    /\ older' = {w \in Works : upload[w] # "idle"}
    /\ UNCHANGED <<alive, faults, doomed>>

RunsPass(a) ==
    /\ PassDeletes(a) \/ PassFails(a)
    /\ UNCHANGED <<alive, wipeVars, ghosts>>

RecordsPass(a) ==
    /\ recordPurgePassSucceeded(a) \/ recordPurgePassFailed(a)
    /\ IF a = Sweeper THEN UNCHANGED wipeVars ELSE ObjectsDone(a)
    /\ UNCHANGED <<alive, faults, ghosts>>

LosesOutcome(a) ==
    /\ PassUnrecorded(a)
    /\ IF a = Sweeper THEN UNCHANGED wipeVars
       ELSE FinishFails(a)
    /\ UNCHANGED <<alive, ghosts>>

SweepsObjects ==
    /\ duePurges \/ SweepStartsPass
    /\ UNCHANGED <<alive, faults, wipeVars, ghosts>>

(* A process restarts.                                                     *)
Restart(p) ==
    /\ Fault
    /\ WipeRestart(p)
    /\ PurgeRestart({w \in Works : work[w].proc = p}, {a \in Passers : Home[a] = p})
    /\ UNCHANGED <<alive, ghosts>>

Steps ==
    \/ Fenced
    \/ \E e \in Erasers : AsksToLeave(e) \/ Leaves(e) \/ EraserFails(e) \/ StartsPass(e)
    \/ \E w \in Works, p \in Procs : UploadStarts(w, p)
    \/ \E w \in Works : Stores(w) \/ WritesRow(w) \/ Withdraws(w) \/ Discards(w)
    \/ \E a \in Passers : RunsPass(a) \/ RecordsPass(a) \/ LosesOutcome(a)
    \/ SweepsObjects
    \/ \E p \in Procs \cup {Elsewhere} : Restart(p)

Next == Tick \/ (Steps /\ UNCHANGED now)

Spec == Init /\ [][Next]_vars

-----------------------------------------------------------------------------
(* Every variable has its type.                                            *)
TypeOK ==
    /\ now \in Times /\ alive \in BOOLEAN /\ faults \in 0 .. MaxFaults
    /\ WipeTypes /\ PurgeTypes
    /\ older \subseteq Works /\ doomed \in BOOLEAN

(* A purge of the stored objects that is no longer recorded as pending     *)
(* left no object of an upload that had begun when it was last asked for,  *)
(* wherever that upload was: a late PUT, a failed discard and a restarted  *)
(* process included (purge-queue.ts:11-15).                                *)
NoOrphanObject == ~record.on => objects \cap older = {}

(* Nothing of a deleted account stays in the bucket once the last record   *)
(* that knows of it is gone (purge-queue.ts:5-9), as long as object        *)
(* storage is switched on (OBJECT_STORAGE_ENABLED).                        *)
NothingStaysBehind == ~alive /\ ~record.on => objects = {}

(* An upload that was answered with a file keeps its row and its object,   *)
(* unless a wipe that came after it took both: no sweep with a stale list, *)
(* second wipe or late pass deletes what the user stored since             *)
(* (user-deletion.ts:176-183).                                             *)
KeptFiles ==
    \A w \in Works :
        /\ upload[w] = "kept" /\ ~doomed
        /\ wipe.st # "pending"
        /\ wipe.st = "purged" => work[w].began > wipe.purgedAt
        => w \in rows /\ w \in objects
=============================================================================
