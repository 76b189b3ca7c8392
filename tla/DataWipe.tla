------------------------------ MODULE DataWipe ------------------------------
(***************************************************************************)
(* The data-wipe fence (privacy/data-wipe-fence.ts, user-deletion.ts,      *)
(* privacy/data-wipe-sweep.ts, work-context.ts, and the trigger of the     *)
(* migration 20261019010000_data_wipe_fence).                              *)
(*                                                                         *)
(* A wipe is recorded as pending, the rows are purged, and the record is   *)
(* stamped.  Work that began before may still write: the database rejects  *)
(* inserts while the wipe is pending and for Fence after the purge; after  *)
(* that a hook in the process rejects the writes of old work, from a       *)
(* snapshot of the record that is a little behind.                         *)
(***************************************************************************)
EXTENDS Account

CONSTANTS
    Fence,      \* DATA_WIPE_FENCE_MS
    Refresh,    \* bound: the age of what a snapshot says
    Gap,        \* bound: from the hook's check to its insert, from a commit
                \* to the line after it
    Offset,     \* what a process's clock is ahead of the database's
    SweepGrace, \* PENDING_GRACE_MS
    LastRequest \* bound: the time of the last request

ASSUME WipeAssumption ==
    /\ Fence \in Nat /\ Refresh \in Nat /\ Gap \in Nat
    /\ Offset \in [Procs -> Int]
    /\ SweepGrace \in Nat /\ LastRequest \in Nat
    /\ Fence > Refresh + Gap
    /\ \A p \in Procs : Offset[p] < Fence - Gap

VARIABLES
    wipe,     \* the account's DataWipe record
    rows,     \* the works that have a row in the account's tables
    snapshot, \* of each process: the record as it last saw it, and when
    loading,  \* of each process: a refresh that has read and not landed
    started,  \* when each process started
    work,     \* each unit of work
    eraser    \* each erasing call: where it stands, and since when

wipeVars == <<wipe, rows, snapshot, loading, started, work, eraser>>

NoWipe == [st |-> "none", requestedAt |-> 0, purgedAt |-> 0]
Nothing(at) == [st |-> "none", until |-> 0, at |-> at]
NotLoading == [st |-> "idle", until |-> 0, at |-> 0]
NewWork == [pc |-> "idle", proc |-> Elsewhere, began |-> 0, checked |-> 0]
Idle == [pc |-> "idle", stamp |-> 0]

WipeInit ==
    /\ wipe = NoWipe
    /\ rows = {}
    /\ snapshot = [p \in Procs |-> Nothing(0)]
    /\ loading = [p \in Procs |-> NotLoading]
    /\ started = [p \in Procs |-> 0]
    /\ work = [w \in Works |-> NewWork]
    /\ eraser = [e \in Erasers |-> Idle]

(* An eraser moves on, at once or whenever it comes to it.                 *)
At(e, pc) == eraser' = [eraser EXCEPT ![e] = [pc |-> pc, stamp |-> now]]
Goes(e, pc) == eraser' = [eraser EXCEPT ![e] = [pc |-> pc, stamp |-> 0]]

-----------------------------------------------------------------------------
(* The snapshot of a process.  It is refreshed by a timer, so not again in *)
(* the instant of the last refresh.                                        *)

(* What a load reads: the record, unless its fence ended before the        *)
(* process started.                                                        *)
loadFences(p) ==
    IF \/ wipe.st = "pending"
       \/ wipe.st = "purged" /\ wipe.purgedAt + Fence > started[p] + Offset[p]
    THEN [st |-> wipe.st, until |-> wipe.purgedAt + Fence, at |-> now]
    ELSE Nothing(now)

LoadReads(p) ==
    /\ loading[p].st = "idle"
    /\ snapshot[p].at < now
    /\ loading' = [loading EXCEPT ![p] = loadFences(p)]
    /\ UNCHANGED <<wipe, rows, snapshot, started, work, eraser>>

(* A variant: the refresh is over before what it read is kept.             *)
LandsTooLate(p) ==
    /\ loading[p].st # "idle"
    /\ loading' = [loading EXCEPT ![p] = NotLoading]
    /\ snapshot' = [snapshot EXCEPT ![p] = loading'[p]]
    /\ UNCHANGED <<wipe, rows, started, work, eraser>>

LoadLands(p) ==
    /\ loading[p].st # "idle"
    /\ snapshot' = [snapshot EXCEPT ![p] = loading[p]]
    /\ loading' = [loading EXCEPT ![p] = NotLoading]
    /\ UNCHANGED <<wipe, rows, started, work, eraser>>

(* The eraser's own process learns at once; the age of the rest of the     *)
(* snapshot stays.                                                         *)
rememberDataWipe(e, st, until) ==
    IF Home[e] \in Procs
    THEN snapshot' = [snapshot EXCEPT ![Home[e]] =
                        [st |-> st, until |-> until, at |-> snapshot[Home[e]].at]]
    ELSE UNCHANGED snapshot

-----------------------------------------------------------------------------
(* A unit of work, and its write.                                          *)

stamp(w) == work[w].began + Offset[work[w].proc]

WorkBegins(w, p) ==
    /\ work[w].pc = "idle"
    /\ work' = [work EXCEPT ![w] = [pc |-> "running", proc |-> p, began |-> now, checked |-> 0]]
    /\ UNCHANGED <<wipe, rows, snapshot, loading, started, eraser>>

(* A variant: a finished wipe blocks nothing.                              *)
BlocksPendingOnly(w) == snapshot[work[w].proc].st = "pending"

blocks(w) ==
    LET seen == snapshot[work[w].proc]
    IN  seen.st = "pending" \/ (seen.st = "purged" /\ stamp(w) < seen.until)

(* The query hook in front of an insert.                                   *)
HookAllows(w) ==
    /\ work[w].pc = "running"
    /\ ~blocks(w)
    /\ work' = [work EXCEPT ![w].pc = "checked", ![w].checked = now]
    /\ UNCHANGED <<wipe, rows, snapshot, loading, started, eraser>>

HookRejects(w) ==
    /\ work[w].pc = "running"
    /\ blocks(w)
    /\ work' = [work EXCEPT ![w].pc = "rejected"]
    /\ UNCHANGED <<wipe, rows, snapshot, loading, started, eraser>>

(* A variant: the trigger only looks for a pending wipe.                   *)
ChecksPendingOnly == wipe.st = "pending"

(* The trigger's check, under the lock that orders it with a request.      *)
klorn_data_wipe_check ==
    \/ wipe.st = "pending"
    \/ wipe.st = "purged" /\ wipe.purgedAt + Fence > now

(* The insert: the account must exist.                                     *)
Inserts(w) ==
    /\ work[w].pc = "checked"
    /\ alive /\ ~klorn_data_wipe_check
    /\ rows' = rows \cup {w}
    /\ work' = [work EXCEPT ![w].pc = "written", ![w].checked = 0]
    /\ UNCHANGED <<wipe, snapshot, loading, started, eraser>>

TriggerRejects(w) ==
    /\ work[w].pc = "checked"
    /\ ~alive \/ klorn_data_wipe_check
    /\ work' = [work EXCEPT ![w].pc = "rejected", ![w].checked = 0]
    /\ UNCHANGED <<wipe, rows, snapshot, loading, started, eraser>>

-----------------------------------------------------------------------------
(* The wipe: purgeAllUserData, finishDataWipe, runDataWipeSweep.           *)

recordWipeAndRevoke(e) ==
    /\ eraser[e].pc = "idle" /\ e \in Requests
    /\ alive
    /\ now <= LastRequest
    /\ wipe' = [st |-> "pending", requestedAt |-> now, purgedAt |-> 0]
    /\ At(e, "recorded")
    /\ UNCHANGED <<rows, snapshot, loading, started, work>>

RemembersPending(e) ==
    /\ eraser[e].pc = "recorded"
    /\ rememberDataWipe(e, "pending", 0)
    /\ Goes(e, "picked")
    /\ UNCHANGED <<wipe, rows, loading, started, work>>

SweepPicks(e) ==
    /\ eraser[e].pc = "idle" /\ e \in Sweeps
    /\ wipe.st = "pending" /\ wipe.requestedAt < now - SweepGrace
    /\ Goes(e, "picked")
    /\ UNCHANGED <<wipe, rows, snapshot, loading, started, work>>

(* A variant: the record is not read again before the objects go.          *)
FinishesBlindly(e) ==
    /\ eraser[e].pc = "picked"
    /\ At(e, "objects")
    /\ UNCHANGED <<wipe, rows, snapshot, loading, started, work>>

(* finishDataWipe reads the record before it touches the objects.          *)
ReadsRecord(e) ==
    /\ eraser[e].pc = "picked"
    /\ IF wipe.st = "pending" THEN At(e, "objects") ELSE Goes(e, "idle")
    /\ UNCHANGED <<wipe, rows, snapshot, loading, started, work>>

(* A wipe and a deletion wait for a pass over the objects, whatever it     *)
(* achieves.                                                               *)
ObjectsStart(e) ==
    /\ eraser[e].pc \in {"objects", "leaving"}
    /\ Goes(e, IF eraser[e].pc = "objects" THEN "passing" ELSE "emptying")
    /\ UNCHANGED <<wipe, rows, snapshot, loading, started, work>>

ObjectsDone(e) ==
    /\ eraser[e].pc \in {"passing", "emptying"}
    /\ At(e, IF eraser[e].pc = "passing" THEN "purge" ELSE "removing")
    /\ UNCHANGED <<wipe, rows, snapshot, loading, started, work>>

(* The purge's transaction holds the record, and reads it again.           *)
Purges(e) ==
    /\ eraser[e].pc = "purge"
    /\ wipe.st = "pending"
    /\ rows' = {}
    /\ wipe' = [wipe EXCEPT !.st = "purged", !.purgedAt = now]
    /\ At(e, "stamped")
    /\ UNCHANGED <<snapshot, loading, started, work>>

NotPending(e) ==
    /\ eraser[e].pc = "purge"
    /\ wipe.st # "pending"
    /\ Goes(e, "idle")
    /\ UNCHANGED <<wipe, rows, snapshot, loading, started, work>>

RemembersPurged(e) ==
    /\ eraser[e].pc = "stamped"
    /\ rememberDataWipe(e, "purged", eraser[e].stamp + Fence)
    /\ Goes(e, "idle")
    /\ UNCHANGED <<wipe, rows, loading, started, work>>

(* deleteUserAndAllData: the objects, then the account; the record of its  *)
(* wipe and its rows go with it.                                           *)
AsksDeletion(e) ==
    /\ eraser[e].pc = "idle" /\ e \in Requests
    /\ alive
    /\ now <= LastRequest
    /\ At(e, "leaving")
    /\ UNCHANGED <<wipe, rows, snapshot, loading, started, work>>

AccountGoes(e) ==
    /\ eraser[e].pc = "removing"
    /\ alive' = FALSE
    /\ wipe' = NoWipe
    /\ rows' = {}
    /\ Goes(e, "idle")
    /\ UNCHANGED <<snapshot, loading, started, work>>

(* A database error on the way leaves a wipe to a sweep, a deletion to     *)
(* whoever asks again.                                                     *)
FinishFails(e) ==
    /\ eraser[e].pc \in {"picked", "objects", "leaving", "passing", "emptying", "purge",
                        "removing"}
    /\ Fault
    /\ Goes(e, "idle")
    /\ UNCHANGED <<wipe, rows, snapshot, loading, started, work>>

(* A process stops and starts again: its work and its erasing calls are    *)
(* gone, its snapshot is empty until the first load lands.                 *)
WipeRestart(p) ==
    /\ snapshot' = [q \in Procs |-> IF q = p THEN Nothing(now) ELSE snapshot[q]]
    /\ loading' = [q \in Procs |-> IF q = p THEN NotLoading ELSE loading[q]]
    /\ started' = [q \in Procs |-> IF q = p THEN now ELSE started[q]]
    /\ work' = [w \in Works |->
                  IF work[w].proc = p /\ work[w].pc \in {"running", "checked"}
                  THEN [work[w] EXCEPT !.pc = "rejected", !.checked = 0] ELSE work[w]]
    /\ eraser' = [e \in Erasers |-> IF Home[e] = p THEN Idle ELSE eraser[e]]
    /\ UNCHANGED <<wipe, rows>>

(* A row its own work takes back.                                          *)
RowRemoved(w) ==
    /\ rows' = rows \ {w}
    /\ UNCHANGED <<wipe, snapshot, loading, started, work, eraser>>

(* The clock waits for what the code does in bounded time.                 *)
WipeDeadlines ==
    /\ \A p \in Procs : now < snapshot[p].at + Refresh
    /\ \A w \in Works : work[w].pc = "checked" => now < work[w].checked + Gap
    /\ \A e \in Erasers :
          eraser[e].pc \notin {"idle", "picked", "passing", "emptying"} =>
              now < eraser[e].stamp + Gap

Ticks ==
    /\ now < MaxNow
    /\ WipeDeadlines
    /\ now' = now + 1

WipeStep ==
    \/ \E p \in Procs : LoadReads(p) \/ LoadLands(p)
    \/ \E w \in Works, p \in Procs : WorkBegins(w, p)
    \/ \E w \in Works : \/ HookAllows(w) \/ HookRejects(w)
                        \/ Inserts(w) \/ TriggerRejects(w) \/ RowRemoved(w)
    \/ \E e \in Erasers :
          \/ recordWipeAndRevoke(e) \/ RemembersPending(e) \/ SweepPicks(e)
          \/ ReadsRecord(e) \/ ObjectsStart(e) \/ ObjectsDone(e)
          \/ Purges(e) \/ NotPending(e) \/ RemembersPurged(e)
          \/ AsksDeletion(e) \/ AccountGoes(e) \/ FinishFails(e)
    \/ \E p \in Procs \cup {Elsewhere} : WipeRestart(p)

WipeNext == (Ticks /\ UNCHANGED wipeVars) \/ (WipeStep /\ UNCHANGED now)

(* The fence by itself: what every system that has it does to its state.   *)
WipeSpec == (WipeInit /\ now = 0) /\ [][WipeNext]_<<now, wipeVars>>

-----------------------------------------------------------------------------
WipeTypes ==
    /\ wipe \in [st : {"none", "pending", "purged"}, requestedAt : Times, purgedAt : Times]
    /\ rows \subseteq Works
    /\ snapshot \in [Procs -> [st : {"none", "pending", "purged"}, until : Nat, at : Times]]
    /\ loading \in [Procs -> [st : {"idle", "none", "pending", "purged"}, until : Nat, at : Times]]
    /\ started \in [Procs -> Times]
    /\ work \in [Works -> [pc : {"idle", "running", "checked", "written", "rejected"},
                           proc : Procs \cup {Elsewhere}, began : Times, checked : Times]]
    /\ eraser \in [Erasers -> [pc : {"idle", "recorded", "picked", "objects", "passing", "purge",
                                     "stamped", "leaving", "emptying", "removing"},
                               stamp : Times]]

(* Once a wipe has purged the account's rows, no row is there whose work   *)
(* began before: neither an insert on its way when the wipe was asked for, *)
(* nor work that slept through the whole window in which the database      *)
(* rejects inserts, in a process that learnt of the wipe late, restarted,  *)
(* or overwrote what it knew with an older load (the header of             *)
(* data-wipe-fence.ts).                                                    *)
NothingOldSurvives ==
    wipe.st = "purged" => \A w \in rows : work[w].began > wipe.purgedAt
=============================================================================
