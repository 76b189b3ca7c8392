---------------------------- MODULE StoragePurge ----------------------------
(***************************************************************************)
(* The stored files of an account: uploads (drive/klorn-upload.ts), and    *)
(* the durable purge of everything it stored (storage/purge-queue.ts,      *)
(* storage/durable-purge.ts, storage/purge-sweep.ts).                      *)
(*                                                                         *)
(* A purge is recorded before the bucket is touched.  A pass deletes every *)
(* object it finds.  An upload that was running may land an object after   *)
(* the pass, so only a pass that started Grace after the request finishes  *)
(* the record; until then uploads are refused.                             *)
(***************************************************************************)
EXTENDS Account

CONSTANTS
    Grace,      \* LATE_UPLOAD_GRACE_MS
    Backoff,    \* purgeRetryDelayMs: the wait after a failed pass
    UploadMax,  \* bound: an upload, from its first check to its last, or to the
                \* end of a PUT that nobody waits for any more
    PassMax     \* bound: a pass (PURGE_DEADLINE_MS) and its outcome's record

ASSUME PurgeAssumption ==
    /\ Grace \in Nat /\ Backoff \in Nat /\ UploadMax \in Nat /\ PassMax \in Nat
    /\ UploadMax < Grace

VARIABLES
    record,   \* the account's StoragePurge record
    objects,  \* the uploads whose object is in the bucket
    upload,   \* each upload: where it stands
    pass      \* each pass over the bucket, and when it started

purgeVars == <<record, objects, upload, pass>>

Passers == Erasers \cup {Sweeper}
NoRecord == [on |-> FALSE, requestedAt |-> 0, dueAt |-> 0]
NoPass == [pc |-> "no", startedAt |-> 0]

PurgeInit ==
    /\ record = NoRecord
    /\ objects = {}
    /\ upload = [w \in Works |-> "idle"]
    /\ pass = [a \in Passers |-> NoPass]

Uploading(w, pc) == upload' = [upload EXCEPT ![w] = pc]

-----------------------------------------------------------------------------
(* An upload: checked, stored, checked, its row written, checked.  A work  *)
(* that is no upload stays "idle" here.                                    *)

isStoragePurgePending == record.on

UploadBegins(w) ==
    /\ upload[w] = "idle"
    /\ alive
    /\ ~isStoragePurgePending
    /\ Uploading(w, "accepted")
    /\ UNCHANGED <<record, objects, pass>>

UploadPuts(w) ==
    /\ upload[w] = "accepted"
    /\ Uploading(w, IF isStoragePurgePending THEN "gone" ELSE "putting")
    /\ UNCHANGED <<record, objects, pass>>

UploadLands(w) ==
    /\ upload[w] = "putting"
    /\ objects' = objects \cup {w}
    /\ Uploading(w, "stored")
    /\ UNCHANGED <<record, pass>>

(* The PUT fails or times out, or its process stops: the bucket may still  *)
(* finish it.                                                              *)
UploadFails(w) ==
    /\ upload[w] = "putting"
    /\ Fault
    /\ Uploading(w, "adrift")
    /\ UNCHANGED <<record, objects, pass>>

PutEnds(w) ==
    /\ upload[w] = "adrift"
    /\ objects' \in {objects, objects \cup {w}}
    /\ Uploading(w, "gone")
    /\ UNCHANGED <<record, pass, faults>>

(* No room for it, or the account is being purged: the object is discarded.*)
UploadRechecks(w) ==
    /\ upload[w] = "stored"
    /\ \/ ~isStoragePurgePending /\ Uploading(w, "row")
       \/ Uploading(w, "discard")
    /\ UNCHANGED <<record, objects, pass>>

RowWritten(w) ==
    /\ upload[w] = "row"
    /\ Uploading(w, "written")
    /\ UNCHANGED <<record, objects, pass>>

RowRefused(w) ==
    /\ upload[w] = "row"
    /\ Uploading(w, "discard")
    /\ UNCHANGED <<record, objects, pass>>

(* The answer is a file, unless a purge started meanwhile.                 *)
UploadConfirms(w) ==
    /\ upload[w] = "written"
    /\ ~isStoragePurgePending
    /\ Uploading(w, "kept")
    /\ UNCHANGED <<record, objects, pass>>

UploadWithdraws(w) ==
    /\ upload[w] = "written"
    /\ isStoragePurgePending
    /\ Uploading(w, "discard")
    /\ UNCHANGED <<record, objects, pass>>

discardKlornUpload(w) ==
    /\ upload[w] = "discard"
    /\ objects' = objects \ {w}
    /\ Uploading(w, "gone")
    /\ UNCHANGED <<record, pass, faults>>

(* Best effort: the object then waits for the account's purge.             *)
DiscardFails(w) ==
    /\ upload[w] = "discard"
    /\ Fault
    /\ Uploading(w, "gone")
    /\ UNCHANGED <<record, objects, pass>>

-----------------------------------------------------------------------------
(* The purge.                                                              *)

Passing(a, pc) == pass' = [pass EXCEPT ![a] = [pc |-> pc, startedAt |-> now]]
PassEnds(a) == pass' = [pass EXCEPT ![a] = NoPass]

(* purgeUserObjectsDurably: the record, due at once, then a pass.          *)
markPurgePending(a) ==
    /\ pass[a].pc = "no"
    /\ record' = [on |-> TRUE, requestedAt |-> now, dueAt |-> now]
    /\ Passing(a, "deleting")
    /\ UNCHANGED <<objects, upload>>

(* The sweep takes its list of due records, and comes to this one later.   *)
duePurges ==
    /\ pass[Sweeper].pc = "no"
    /\ record.on /\ record.dueAt <= now
    /\ pass' = [pass EXCEPT ![Sweeper].pc = "listed"]
    /\ UNCHANGED <<record, objects, upload>>

SweepStartsPass ==
    /\ pass[Sweeper].pc = "listed"
    /\ Passing(Sweeper, "deleting")
    /\ UNCHANGED <<record, objects, upload>>

(* The pass finds the prefix empty behind it.                              *)
PassDeletes(a) ==
    /\ pass[a].pc = "deleting"
    /\ objects' = {}
    /\ pass' = [pass EXCEPT ![a].pc = "emptied"]
    /\ UNCHANGED <<record, upload, faults>>

(* The bucket fails, or the deadline passes: some objects may be gone.     *)
PassFails(a) ==
    /\ pass[a].pc = "deleting"
    /\ Fault
    /\ objects' \in SUBSET objects
    /\ pass' = [pass EXCEPT ![a].pc = "failed"]
    /\ UNCHANGED <<record, upload>>

(* A variant: the first pass that empties the bucket finishes the record.  *)
FinishesAtOnce(a) ==
    /\ pass[a].pc = "emptied"
    /\ record' = NoRecord
    /\ PassEnds(a)
    /\ UNCHANGED <<objects, upload>>

(* "done" when the pass started after the grace of the latest request,     *)
(* else "settling", due again when this pass's grace is over.              *)
recordPurgePassSucceeded(a) ==
    /\ pass[a].pc = "emptied"
    /\ record' =
          IF record.on /\ record.requestedAt <= pass[a].startedAt - Grace THEN NoRecord
          ELSE IF record.on THEN [record EXCEPT !.dueAt = pass[a].startedAt + Grace]
          ELSE record
    /\ PassEnds(a)
    /\ UNCHANGED <<objects, upload>>

recordPurgePassFailed(a) ==
    /\ pass[a].pc = "failed"
    /\ record' = IF record.on THEN [record EXCEPT !.dueAt = now + Backoff] ELSE record
    /\ PassEnds(a)
    /\ UNCHANGED <<objects, upload>>

(* A database error there leaves the record as it was.                     *)
PassUnrecorded(a) ==
    /\ pass[a].pc \in {"emptied", "failed"}
    /\ Fault
    /\ PassEnds(a)
    /\ UNCHANGED <<record, objects, upload>>

(* The uploads and passes of a process that stops are gone; what they put  *)
(* in the bucket stays.                                                    *)
Stopped(pc) ==
    CASE pc \in {"idle", "kept", "adrift"} -> pc
      [] pc = "putting"                   -> "adrift"
      [] OTHER                            -> "gone"

PurgeRestart(uploads, passers) ==
    /\ upload' = [w \in Works |-> IF w \in uploads THEN Stopped(upload[w]) ELSE upload[w]]
    /\ pass' = [a \in Passers |-> IF a \in passers THEN NoPass ELSE pass[a]]
    /\ UNCHANGED <<record, objects>>

PassDeadlines ==
    \A a \in Passers : pass[a].pc \notin {"no", "listed"} => now < pass[a].startedAt + PassMax

PurgeTypes ==
    /\ record \in [on : BOOLEAN, requestedAt : Times, dueAt : Nat]
    /\ objects \subseteq Works
    /\ upload \in [Works -> {"idle", "accepted", "putting", "adrift", "stored", "row", "written",
                             "kept", "discard", "gone"}]
    /\ pass \in [Passers -> [pc : {"no", "listed", "deleting", "emptied", "failed"},
                             startedAt : Times]]
=============================================================================
