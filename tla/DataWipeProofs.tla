--------------------------- MODULE DataWipeProofs ---------------------------
(***************************************************************************)
(* The data-wipe fence holds for any number of processes, works, requests  *)
(* and sweeps, and for every clock skew and delay within WipeAssumption.   *)
(***************************************************************************)
EXTENDS DataWipe, TLAPS

wv == <<now, wipeVars>>

Typed == now \in Times /\ WipeTypes

(* What the clock's bounds make of the deadlines.                          *)
SnapshotClock ==
    \A p \in Procs :
        /\ started[p] <= now
        /\ snapshot[p].at <= now /\ now <= snapshot[p].at + Refresh
        /\ loading[p].st # "idle" =>
              snapshot[p].at <= loading[p].at /\ loading[p].at <= now

WorkClock ==
    \A w \in Works :
        /\ work[w].began <= now
        /\ work[w].pc \in {"running", "checked"} =>
              work[w].proc \in Procs /\ started[work[w].proc] <= work[w].began
        /\ work[w].pc = "checked" => work[w].checked <= now /\ now <= work[w].checked + Gap

EraserClock ==
    \A e \in Erasers :
        eraser[e].pc \notin {"idle", "picked", "passing", "emptying"} =>
            eraser[e].stamp <= now /\ now <= eraser[e].stamp + Gap

(* The last purge, and the calls that have yet to remember theirs.         *)
PurgeClock ==
    wipe.st = "purged" =>
        /\ wipe.purgedAt <= now
        /\ \A e \in Erasers : eraser[e].pc = "stamped" => eraser[e].stamp <= wipe.purgedAt
        /\ rows # {} => wipe.purgedAt + Fence <= now

(* What a process knows suffices to block work older than the last purge,  *)
(* unless it is older than that itself, or the process is younger.         *)
Knows(p, seen) ==
    \/ seen.at <= wipe.purgedAt
    \/ seen.st = "pending"
    \/ seen.st = "purged" /\ wipe.purgedAt + Offset[p] < seen.until
    \/ wipe.purgedAt < started[p]

Known ==
    wipe.st = "purged" =>
        \A p \in Procs :
            Knows(p, snapshot[p]) /\ (loading[p].st # "idle" => Knows(p, loading[p]))

(* Old work that passed the hook did so soon after the purge.              *)
Hooked ==
    wipe.st = "purged" =>
        \A w \in Works :
            work[w].pc = "checked" =>
                \/ wipe.purgedAt < work[w].began
                \/ work[w].checked <= wipe.purgedAt + Refresh

RowsWritten == \A w \in rows : work[w].pc = "written"

FenceInv ==
    /\ Typed
    /\ SnapshotClock /\ WorkClock /\ EraserClock /\ PurgeClock
    /\ Known /\ Hooked /\ RowsWritten
    /\ NothingOldSurvives


-----------------------------------------------------------------------------
(* The erasers' steps by what they leave alone.                            *)

EraserPCs == {"idle", "recorded", "picked", "objects", "passing", "purge", "stamped", "leaving",
              "emptying", "removing"}
Untimed == {"idle", "picked", "passing", "emptying"}

Moves(e, pcs) ==
    \E pc \in pcs : At(e, pc) \/ (pc \in Untimed /\ Goes(e, pc))

Quiet(e) ==
    \/ SweepPicks(e) \/ ReadsRecord(e) \/ ObjectsStart(e) \/ ObjectsDone(e)
    \/ NotPending(e) \/ AsksDeletion(e) \/ FinishFails(e)

Remembers(e) == RemembersPending(e) \/ RemembersPurged(e)

Stamps(e) == recordWipeAndRevoke(e) \/ Purges(e) \/ AccountGoes(e)

LEMMA QuietMoves ==
    ASSUME NEW e \in Erasers, Quiet(e)
    PROVE  /\ UNCHANGED <<wipe, rows, snapshot, loading, started, work>>
           /\ Moves(e, EraserPCs \ {"stamped"})
<1>1. CASE SweepPicks(e)
  BY <1>1 DEF SweepPicks, Moves, EraserPCs, Untimed
<1>2. CASE ReadsRecord(e)
  BY <1>2 DEF ReadsRecord, Moves, EraserPCs, Untimed
<1>3. CASE ObjectsStart(e)
  BY <1>3 DEF ObjectsStart, Moves, EraserPCs, Untimed
<1>4. CASE ObjectsDone(e)
  BY <1>4 DEF ObjectsDone, Moves, EraserPCs, Untimed
<1>5. CASE NotPending(e)
  BY <1>5 DEF NotPending, Moves, EraserPCs, Untimed
<1>6. CASE AsksDeletion(e)
  BY <1>6 DEF AsksDeletion, Moves, EraserPCs, Untimed
<1>7. CASE FinishFails(e)
  BY <1>7 DEF FinishFails, Moves, EraserPCs, Untimed
<1> QED BY <1>1, <1>2, <1>3, <1>4, <1>5, <1>6, <1>7 DEF Quiet

LEMMA RemembersMoves ==
    ASSUME NEW e \in Erasers, Remembers(e)
    PROVE  /\ UNCHANGED <<wipe, rows, loading, started, work>>
           /\ Moves(e, EraserPCs \ {"stamped"})
BY DEF Remembers, RemembersPending, RemembersPurged, Moves, EraserPCs, Untimed

LEMMA StampsMoves ==
    ASSUME NEW e \in Erasers, Stamps(e)
    PROVE  UNCHANGED <<snapshot, loading, started, work>> /\ Moves(e, EraserPCs)
BY DEF Stamps, recordWipeAndRevoke, Purges, AccountGoes, Moves, EraserPCs, Untimed

LEMMA MovesTyped ==
    ASSUME Typed, NEW e \in Erasers, Moves(e, EraserPCs)
    PROVE  eraser' \in [Erasers -> [pc : EraserPCs, stamp : Times]]
<1>1. PICK pc \in EraserPCs, s \in Times : eraser' = [eraser EXCEPT ![e] = [pc |-> pc, stamp |-> s]]
  <2>1. 0 \in Times /\ now \in Times
    BY AccountAssumption DEF Typed, Times
  <2> QED BY <2>1 DEF Moves, At, Goes
<1>2. eraser \in [Erasers -> [pc : EraserPCs, stamp : Times]]
  BY DEF Typed, WipeTypes, EraserPCs
<1> QED BY <1>1, <1>2

-----------------------------------------------------------------------------
(* The parts of a typed state, one by one.                                 *)
LEMMA Fields ==
    ASSUME Typed
    PROVE  /\ now \in Nat /\ wipe.purgedAt \in Nat
           /\ wipe = [st |-> wipe.st, requestedAt |-> wipe.requestedAt, purgedAt |-> wipe.purgedAt]
           /\ \A p \in Procs : /\ snapshot[p].at \in Nat /\ snapshot[p].until \in Nat
                               /\ loading[p].at \in Nat /\ loading[p].until \in Nat
                               /\ started[p] \in Nat
           /\ \A w \in Works : work[w].began \in Nat /\ work[w].checked \in Nat
           /\ \A e \in Erasers : eraser[e].stamp \in Nat
<1>1. Times \subseteq Nat
  BY AccountAssumption DEF Times
<1>2. /\ wipe.purgedAt \in Times
      /\ wipe = [st |-> wipe.st, requestedAt |-> wipe.requestedAt, purgedAt |-> wipe.purgedAt]
  BY DEF Typed, WipeTypes
<1>3. \A p \in Procs : /\ snapshot[p].at \in Times /\ snapshot[p].until \in Nat
                       /\ loading[p].at \in Times /\ loading[p].until \in Nat
                       /\ started[p] \in Times
  BY DEF Typed, WipeTypes
<1>4. \A w \in Works : work[w].began \in Times /\ work[w].checked \in Times
  BY DEF Typed, WipeTypes
<1>5. \A e \in Erasers : eraser[e].stamp \in Times
  BY DEF Typed, WipeTypes
<1> QED BY <1>1, <1>2, <1>3, <1>4, <1>5 DEF Typed

LEMMA Domains ==
    ASSUME Typed
    PROVE  /\ DOMAIN snapshot = Procs /\ DOMAIN loading = Procs /\ DOMAIN started = Procs
           /\ DOMAIN work = Works /\ DOMAIN eraser = Erasers
           /\ snapshot = [p \in Procs |-> snapshot[p]] /\ loading = [p \in Procs |-> loading[p]]
           /\ started = [p \in Procs |-> started[p]]
           /\ work = [w \in Works |-> work[w]] /\ eraser = [e \in Erasers |-> eraser[e]]
BY DEF Typed, WipeTypes

AJob == [pc : {"idle", "running", "checked", "written", "rejected"},
         proc : Procs \cup {Elsewhere}, began : Times, checked : Times]

(* What each step does to the works.                                       *)
LEMMA WorkSteps ==
    ASSUME Typed, NEW w \in Works
    PROVE  /\ \A p \in Procs : WorkBegins(w, p) =>
                 work' = [work EXCEPT ![w] = [pc |-> "running", proc |-> p, began |-> now, checked |-> 0]]
           /\ HookAllows(w) =>
                 work' = [work EXCEPT ![w] = [pc |-> "checked", proc |-> work[w].proc,
                                              began |-> work[w].began, checked |-> now]]
           /\ HookRejects(w) =>
                 work' = [work EXCEPT ![w] = [pc |-> "rejected", proc |-> work[w].proc,
                                              began |-> work[w].began, checked |-> work[w].checked]]
           /\ Inserts(w) =>
                 work' = [work EXCEPT ![w] = [pc |-> "written", proc |-> work[w].proc,
                                              began |-> work[w].began, checked |-> 0]]
           /\ TriggerRejects(w) =>
                 work' = [work EXCEPT ![w] = [pc |-> "rejected", proc |-> work[w].proc,
                                              began |-> work[w].began, checked |-> 0]]
<1>1. work[w] \in AJob
  BY DEF Typed, WipeTypes, AJob
<1>0. DOMAIN work = Works
  BY DEF Typed, WipeTypes
<1>2. \A p \in Procs : WorkBegins(w, p) =>
        work' = [work EXCEPT ![w] = [pc |-> "running", proc |-> p, began |-> now, checked |-> 0]]
  BY DEF WorkBegins
<1>3. ASSUME HookAllows(w)
      PROVE  work' = [work EXCEPT ![w] = [pc |-> "checked", proc |-> work[w].proc,
                                          began |-> work[w].began, checked |-> now]]
  <2>1. work' = [work EXCEPT ![w] = [work[w] EXCEPT !.pc = "checked", !.checked = now]]
    BY <1>3, <1>0 DEF HookAllows
  <2>11. [work[w] EXCEPT !.pc = "checked"] =
           [pc |-> "checked", proc |-> work[w].proc, began |-> work[w].began,
            checked |-> work[w].checked]
    BY <1>1 DEF AJob
  <2>12. [[pc |-> "checked", proc |-> work[w].proc, began |-> work[w].began,
          checked |-> work[w].checked] EXCEPT !.checked = now] =
           [pc |-> "checked", proc |-> work[w].proc, began |-> work[w].began, checked |-> now]
    OBVIOUS
  <2>13. [work[w] EXCEPT !.pc = "checked", !.checked = now] =
           [pc |-> "checked", proc |-> work[w].proc, began |-> work[w].began, checked |-> now]
    BY <2>11, <2>12
  <2> QED BY <2>1, <2>13
<1>4. ASSUME HookRejects(w)
      PROVE  work' = [work EXCEPT ![w] = [pc |-> "rejected", proc |-> work[w].proc,
                                          began |-> work[w].began, checked |-> work[w].checked]]
  <2>1. work' = [work EXCEPT ![w] = [work[w] EXCEPT !.pc = "rejected"]]
    BY <1>4, <1>0 DEF HookRejects
  <2>11. [work[w] EXCEPT !.pc = "rejected"] =
           [pc |-> "rejected", proc |-> work[w].proc, began |-> work[w].began,
            checked |-> work[w].checked]
    BY <1>1 DEF AJob
  <2> QED BY <2>1, <2>11
<1>5. ASSUME Inserts(w)
      PROVE  work' = [work EXCEPT ![w] = [pc |-> "written", proc |-> work[w].proc,
                                          began |-> work[w].began, checked |-> 0]]
  <2>1. work' = [work EXCEPT ![w] = [work[w] EXCEPT !.pc = "written", !.checked = 0]]
    BY <1>5, <1>0 DEF Inserts
  <2>11. [work[w] EXCEPT !.pc = "written"] =
           [pc |-> "written", proc |-> work[w].proc, began |-> work[w].began,
            checked |-> work[w].checked]
    BY <1>1 DEF AJob
  <2>12. [[pc |-> "written", proc |-> work[w].proc, began |-> work[w].began,
          checked |-> work[w].checked] EXCEPT !.checked = 0] =
           [pc |-> "written", proc |-> work[w].proc, began |-> work[w].began, checked |-> 0]
    OBVIOUS
  <2>13. [work[w] EXCEPT !.pc = "written", !.checked = 0] =
           [pc |-> "written", proc |-> work[w].proc, began |-> work[w].began, checked |-> 0]
    BY <2>11, <2>12
  <2> QED BY <2>1, <2>13
<1>6. ASSUME TriggerRejects(w)
      PROVE  work' = [work EXCEPT ![w] = [pc |-> "rejected", proc |-> work[w].proc,
                                          began |-> work[w].began, checked |-> 0]]
  <2>1. work' = [work EXCEPT ![w] = [work[w] EXCEPT !.pc = "rejected", !.checked = 0]]
    BY <1>6, <1>0 DEF TriggerRejects
  <2>11. [work[w] EXCEPT !.pc = "rejected"] =
           [pc |-> "rejected", proc |-> work[w].proc, began |-> work[w].began,
            checked |-> work[w].checked]
    BY <1>1 DEF AJob
  <2>12. [[pc |-> "rejected", proc |-> work[w].proc, began |-> work[w].began,
          checked |-> work[w].checked] EXCEPT !.checked = 0] =
           [pc |-> "rejected", proc |-> work[w].proc, began |-> work[w].began, checked |-> 0]
    OBVIOUS
  <2>13. [work[w] EXCEPT !.pc = "rejected", !.checked = 0] =
           [pc |-> "rejected", proc |-> work[w].proc, began |-> work[w].began, checked |-> 0]
    BY <2>11, <2>12
  <2> QED BY <2>1, <2>13
<1> QED BY <1>2, <1>3, <1>4, <1>5, <1>6

(* A step of the works leaves the rest of the fence alone.                 *)
Working(w) ==
    \/ \E p \in Procs : WorkBegins(w, p)
    \/ HookAllows(w) \/ HookRejects(w) \/ Inserts(w) \/ TriggerRejects(w) \/ RowRemoved(w)

LEMMA WorkingLeaves ==
    ASSUME NEW w \in Works, Working(w)
    PROVE  UNCHANGED <<wipe, snapshot, loading, started, eraser>>
BY DEF Working, WorkBegins, HookAllows, HookRejects, Inserts, TriggerRejects, RowRemoved

LEMMA RestartWorks ==
    ASSUME Typed, NEW p \in Procs \cup {Elsewhere}, WipeRestart(p), NEW w \in Works
    PROVE  /\ work'[w].began = work[w].began /\ work'[w].proc = work[w].proc
           /\ \/ work'[w] = work[w] /\ (work[w].proc # p \/ work[w].pc \notin {"running", "checked"})
              \/ work'[w].pc = "rejected" /\ work[w].pc \in {"running", "checked"}
<1>1. work[w] = [pc |-> work[w].pc, proc |-> work[w].proc, began |-> work[w].began,
                 checked |-> work[w].checked]
  BY DEF Typed, WipeTypes
<1>2. work'[w] = IF work[w].proc = p /\ work[w].pc \in {"running", "checked"}
                 THEN [work[w] EXCEPT !.pc = "rejected", !.checked = 0] ELSE work[w]
  BY DEF WipeRestart
<1> QED BY <1>1, <1>2

LEMMA WipeCases ==
    ASSUME WipeStep
    PROVE  \/ \E p \in Procs : LoadReads(p)
           \/ \E p \in Procs : LoadLands(p)
           \/ \E w \in Works : Working(w)
           \/ \E e \in Erasers : Quiet(e)
           \/ \E e \in Erasers : Remembers(e)
           \/ \E e \in Erasers : Stamps(e)
           \/ \E p \in Procs \cup {Elsewhere} : WipeRestart(p)
BY DEF WipeStep, Working, Quiet, Remembers, Stamps

-----------------------------------------------------------------------------
(* Types.                                                                  *)

LEMMA TypedInit == ASSUME WipeInit, now = 0 PROVE Typed
<1>1. 0 \in Times /\ 0 \in Nat
  BY AccountAssumption DEF Times
<1>2. wipe \in [st : {"none", "pending", "purged"}, requestedAt : Times, purgedAt : Times]
  BY <1>1 DEF WipeInit, NoWipe
<1>3. /\ snapshot \in [Procs -> [st : {"none", "pending", "purged"}, until : Nat, at : Times]]
      /\ loading \in [Procs -> [st : {"idle", "none", "pending", "purged"}, until : Nat, at : Times]]
      /\ started \in [Procs -> Times]
  BY <1>1 DEF WipeInit, Nothing, NotLoading
<1>4. work \in [Works -> [pc : {"idle", "running", "checked", "written", "rejected"},
                          proc : Procs \cup {Elsewhere}, began : Times, checked : Times]]
  BY <1>1 DEF WipeInit, NewWork
<1>5. eraser \in [Erasers -> [pc : EraserPCs, stamp : Times]]
  BY <1>1 DEF WipeInit, Idle, EraserPCs
<1> QED BY <1>1, <1>2, <1>3, <1>4, <1>5 DEF Typed, WipeTypes, WipeInit, EraserPCs

LEMMA TypedStep ==
    ASSUME Typed, [WipeNext]_wv
    PROVE  Typed'
<1> USE DEF Typed
<1>0. 0 \in Times /\ Times \subseteq Nat /\ Fence \in Nat /\ now \in Times
  BY AccountAssumption, WipeAssumption DEF Times
<1>1. CASE Ticks /\ UNCHANGED wipeVars
  BY <1>1, <1>0, AccountAssumption DEF Ticks, wipeVars, WipeTypes, Times
<1>2. CASE UNCHANGED wv
  BY <1>2 DEF wv, wipeVars, WipeTypes
<1>3. CASE WipeStep /\ UNCHANGED now
  <2> DEFINE Snap == [st : {"none", "pending", "purged"}, until : Nat, at : Times]
             Load == [st : {"idle", "none", "pending", "purged"}, until : Nat, at : Times]
             Job == [pc : {"idle", "running", "checked", "written", "rejected"},
                     proc : Procs \cup {Elsewhere}, began : Times, checked : Times]
             Rec == [st : {"none", "pending", "purged"}, requestedAt : Times, purgedAt : Times]
  <2>0. /\ wipe \in Rec /\ rows \subseteq Works
        /\ snapshot \in [Procs -> Snap] /\ loading \in [Procs -> Load]
        /\ started \in [Procs -> Times] /\ work \in [Works -> Job]
        /\ eraser \in [Erasers -> [pc : EraserPCs, stamp : Times]]
    BY DEF WipeTypes, EraserPCs
  <2> SUFFICES /\ wipe' \in Rec /\ rows' \subseteq Works
               /\ snapshot' \in [Procs -> Snap] /\ loading' \in [Procs -> Load]
               /\ started' \in [Procs -> Times] /\ work' \in [Works -> Job]
               /\ eraser' \in [Erasers -> [pc : EraserPCs, stamp : Times]]
    BY <1>3, <1>0 DEF WipeTypes, EraserPCs
  <2>1. ASSUME NEW p \in Procs, LoadReads(p)
        PROVE  loading' \in [Procs -> Load]
    <3>0. wipe.purgedAt \in Nat
      BY <1>0, <2>0
    <3>1. wipe.purgedAt + Fence \in Nat
      <4>1. Fence \in Nat
        BY WipeAssumption
      <4> QED BY ONLY <3>0, <4>1
    <3>2. loadFences(p) \in Load
      BY <1>0, <2>0, <3>1 DEF loadFences, Nothing
    <3> QED BY <2>0, <2>1, <3>2 DEF LoadReads
  <2>2. ASSUME NEW p \in Procs, LoadLands(p)
        PROVE  snapshot' \in [Procs -> Snap] /\ loading' \in [Procs -> Load]
    <3>1. loading[p] \in Snap
      BY <2>0, <2>2 DEF LoadLands
    <3> QED BY <1>0, <2>0, <2>2, <3>1 DEF LoadLands, NotLoading
  <2>3. ASSUME NEW w \in Works,
               \/ \E p \in Procs : WorkBegins(w, p)
               \/ HookAllows(w) \/ HookRejects(w) \/ Inserts(w) \/ TriggerRejects(w)
               \/ RowRemoved(w)
        PROVE  work' \in [Works -> Job] /\ rows' \subseteq Works
    <3>1. ASSUME NEW p \in Procs, WorkBegins(w, p) PROVE work' \in [Works -> Job] /\ rows' = rows
      BY <1>0, <2>0, <3>1 DEF WorkBegins
    <3>2. CASE HookAllows(w) \/ HookRejects(w) \/ Inserts(w) \/ TriggerRejects(w)
      <4>1. rows' \subseteq Works
        BY <2>0, <3>2 DEF HookAllows, HookRejects, Inserts, TriggerRejects
      <4>2. PICK pc \in {"checked", "rejected", "written"}, c \in Times :
                   work' = [work EXCEPT ![w] = [pc |-> pc, proc |-> work[w].proc,
                                                began |-> work[w].began, checked |-> c]]
        <5>1. work[w].checked \in Times
          BY <2>0
        <5> HIDE DEF Snap, Load, Job, Rec
        <5> QED BY <1>0, <3>2, <5>1, WorkSteps
      <4>3. work[w].proc \in Procs \cup {Elsewhere} /\ work[w].began \in Times
        BY <2>0
      <4>4. [pc |-> pc, proc |-> work[w].proc, began |-> work[w].began, checked |-> c] \in Job
        BY <4>3
      <4> HIDE DEF Snap, Load, Job, Rec
      <4> QED BY <2>0, <4>1, <4>2, <4>4
    <3>6. CASE RowRemoved(w)
      BY <2>0, <3>6 DEF RowRemoved
    <3> QED BY <2>0, <2>3, <3>1, <3>2, <3>6
  <2>4. ASSUME NEW e \in Erasers, Remembers(e)
        PROVE  snapshot' \in [Procs -> Snap]
    <3>0. eraser[e].stamp \in Times
      BY <2>0
    <3>1. eraser[e].stamp + Fence \in Nat
      <4>1. Fence \in Nat
        BY WipeAssumption
      <4>2. eraser[e].stamp \in Nat
        BY <1>0, <3>0
      <4> QED BY ONLY <4>1, <4>2
    <3>2. \A p \in Procs : snapshot[p].at \in Times
      BY <2>0
    <3> QED BY <1>0, <2>0, <2>4, <3>1, <3>2 DEF Remembers, RemembersPending, RemembersPurged,
            rememberDataWipe
  <2>5. ASSUME NEW e \in Erasers, Stamps(e)
        PROVE  wipe' \in Rec /\ rows' \subseteq Works
    <3>1. CASE recordWipeAndRevoke(e)
      BY <1>0, <2>0, <3>1 DEF recordWipeAndRevoke
    <3>2. CASE Purges(e)
      <4>1. wipe' = [st |-> "purged", requestedAt |-> wipe.requestedAt, purgedAt |-> now]
        BY <2>0, <3>2 DEF Purges
      <4> QED BY <1>0, <2>0, <3>2, <4>1 DEF Purges
    <3>3. CASE AccountGoes(e)
      BY <1>0, <3>3 DEF AccountGoes, NoWipe
    <3> QED BY <2>5, <3>1, <3>2, <3>3 DEF Stamps
  <2>6. ASSUME NEW e \in Erasers, Moves(e, EraserPCs)
        PROVE  eraser' \in [Erasers -> [pc : EraserPCs, stamp : Times]]
    BY <2>6, MovesTyped
  <2>7. ASSUME NEW e \in Erasers, Moves(e, EraserPCs \ {"stamped"})
        PROVE  eraser' \in [Erasers -> [pc : EraserPCs, stamp : Times]]
    BY <2>6, <2>7 DEF Moves
  <2>8. ASSUME NEW p \in Procs \cup {Elsewhere}, WipeRestart(p)
        PROVE  /\ snapshot' \in [Procs -> Snap] /\ loading' \in [Procs -> Load]
               /\ started' \in [Procs -> Times] /\ work' \in [Works -> Job]
               /\ eraser' \in [Erasers -> [pc : EraserPCs, stamp : Times]]
    <3>1. snapshot' \in [Procs -> Snap] /\ loading' \in [Procs -> Load]
      BY <1>0, <2>0, <2>8 DEF WipeRestart, Nothing, NotLoading
    <3>2. started' \in [Procs -> Times]
      BY <1>0, <2>0, <2>8 DEF WipeRestart
    <3>3. work' \in [Works -> Job]
      BY <1>0, <2>0, <2>8 DEF WipeRestart
    <3>4. eraser' \in [Erasers -> [pc : EraserPCs, stamp : Times]]
      BY <1>0, <2>0, <2>8 DEF WipeRestart, Idle, EraserPCs
    <3> QED BY <3>1, <3>2, <3>3, <3>4
  <2> HIDE DEF Snap, Load, Job, Rec
  <2>11. CASE \E p \in Procs : LoadReads(p)
    BY <2>0, <2>1, <2>11 DEF LoadReads
  <2>12. CASE \E p \in Procs : LoadLands(p)
    BY <2>0, <2>2, <2>12 DEF LoadLands
  <2>13. CASE \E w \in Works : \/ \E p \in Procs : WorkBegins(w, p)
                               \/ HookAllows(w) \/ HookRejects(w) \/ Inserts(w)
                               \/ TriggerRejects(w) \/ RowRemoved(w)
    <3>1. UNCHANGED <<wipe, snapshot, loading, started, eraser>>
      BY <2>13 DEF WorkBegins, HookAllows, HookRejects, Inserts, TriggerRejects, RowRemoved
    <3> QED BY <2>0, <2>3, <2>13, <3>1
  <2>14. CASE \E e \in Erasers : Quiet(e)
    BY <2>0, <2>7, <2>14, QuietMoves
  <2>15. CASE \E e \in Erasers : Remembers(e)
    BY <2>0, <2>4, <2>7, <2>15, RemembersMoves
  <2>16. CASE \E e \in Erasers : Stamps(e)
    BY <2>0, <2>5, <2>6, <2>16, StampsMoves
  <2>17. CASE \E p \in Procs \cup {Elsewhere} : WipeRestart(p)
    BY <2>0, <2>8, <2>17 DEF WipeRestart
  <2> QED BY <1>3, <2>11, <2>12, <2>13, <2>14, <2>15, <2>16, <2>17
          DEF WipeStep, Quiet, Remembers, Stamps
<1> QED BY <1>1, <1>2, <1>3 DEF WipeNext

-----------------------------------------------------------------------------
(* The clock's bounds.                                                     *)

LEMMA SnapshotClockStep ==
    ASSUME Typed, Typed', SnapshotClock, [WipeNext]_wv
    PROVE  SnapshotClock'
<1> USE DEF SnapshotClock
<1>0. Refresh \in Nat
  BY WipeAssumption
<1>1. CASE Ticks /\ UNCHANGED wipeVars
  BY <1>0, <1>1, Fields DEF Ticks, WipeDeadlines, wipeVars
<1>2. CASE UNCHANGED wv
  BY <1>2 DEF wv, wipeVars
<1>3. CASE WipeStep /\ UNCHANGED now
  <2>1. ASSUME NEW p \in Procs, LoadReads(p) PROVE SnapshotClock'
    <3>1. loadFences(p).at = now
      BY DEF loadFences, Nothing
    <3> QED BY <1>3, <2>1, <3>1, Domains, Fields DEF LoadReads
  <2>2. ASSUME NEW p \in Procs, LoadLands(p) PROVE SnapshotClock'
    BY <1>0, <1>3, <2>2, Domains, Fields DEF LoadLands, NotLoading
  <2>3. ASSUME NEW w \in Works, Working(w) PROVE SnapshotClock'
    BY <1>3, <2>3, WorkingLeaves
  <2>4. ASSUME NEW e \in Erasers, Quiet(e) PROVE SnapshotClock'
    BY <1>3, <2>4, QuietMoves
  <2>5. ASSUME NEW e \in Erasers, Remembers(e) PROVE SnapshotClock'
    <3>1. \A p \in Procs : snapshot'[p].at = snapshot[p].at
      BY <2>5, Domains DEF Remembers, RemembersPending, RemembersPurged, rememberDataWipe
    <3> QED BY <1>3, <2>5, <3>1, RemembersMoves
  <2>6. ASSUME NEW e \in Erasers, Stamps(e) PROVE SnapshotClock'
    BY <1>3, <2>6, StampsMoves
  <2>7. ASSUME NEW p \in Procs \cup {Elsewhere}, WipeRestart(p) PROVE SnapshotClock'
    <3>1. ASSUME NEW q \in Procs, q # p
          PROVE  UNCHANGED <<snapshot[q], loading[q], started[q]>>
      BY <2>7, <3>1 DEF WipeRestart
    <3>2. ASSUME NEW q \in Procs, q = p
          PROVE  snapshot'[q].at = now /\ loading'[q].st = "idle" /\ started'[q] = now
      BY <2>7, <3>2 DEF WipeRestart, Nothing, NotLoading
    <3> QED BY <1>0, <1>3, <3>1, <3>2, Fields
  <2> QED BY <1>3, <2>1, <2>2, <2>3, <2>4, <2>5, <2>6, <2>7, WipeCases
<1> QED BY <1>1, <1>2, <1>3 DEF WipeNext

LEMMA WorkClockStep ==
    ASSUME Typed, Typed', SnapshotClock, WorkClock, [WipeNext]_wv
    PROVE  WorkClock'
<1> USE DEF WorkClock
<1>0. Gap \in Nat
  BY WipeAssumption
<1>1. CASE Ticks /\ UNCHANGED wipeVars
  BY <1>0, <1>1, Fields DEF Ticks, WipeDeadlines, wipeVars
<1>2. CASE UNCHANGED wv
  BY <1>2 DEF wv, wipeVars
<1>3. CASE WipeStep /\ UNCHANGED now
  <2>1. ASSUME NEW p \in Procs, LoadReads(p) \/ LoadLands(p) PROVE WorkClock'
    BY <1>3, <2>1 DEF LoadReads, LoadLands
  <2>2. ASSUME NEW w \in Works, Working(w) PROVE WorkClock'
    <3>1. \A p \in Procs : started[p] <= now
      BY DEF SnapshotClock
    <3>2. UNCHANGED started
      BY <2>2, WorkingLeaves
    <3>3. ASSUME NEW p \in Procs, WorkBegins(w, p) PROVE WorkClock'
      BY <1>3, <3>1, <3>2, <3>3, WorkSteps, Domains, Fields
    <3>4. CASE HookAllows(w)
      <4>1. work[w].pc = "running"
        BY <3>4 DEF HookAllows
      <4> QED BY <1>0, <1>3, <3>2, <3>4, <4>1, WorkSteps, Domains, Fields
    <3>5. CASE HookRejects(w) \/ Inserts(w) \/ TriggerRejects(w)
      BY <1>3, <3>2, <3>5, WorkSteps, Domains, Fields
    <3>6. CASE RowRemoved(w)
      BY <1>3, <3>6 DEF RowRemoved
    <3> QED BY <2>2, <3>3, <3>4, <3>5, <3>6 DEF Working
  <2>3. ASSUME NEW e \in Erasers, Quiet(e) PROVE WorkClock'
    BY <1>3, <2>3, QuietMoves
  <2>4. ASSUME NEW e \in Erasers, Remembers(e) PROVE WorkClock'
    BY <1>3, <2>4, RemembersMoves
  <2>5. ASSUME NEW e \in Erasers, Stamps(e) PROVE WorkClock'
    BY <1>3, <2>5, StampsMoves
  <2>6. ASSUME NEW p \in Procs \cup {Elsewhere}, WipeRestart(p) PROVE WorkClock'
    <3>1. \A q \in Procs : q # p => started'[q] = started[q]
      BY <2>6 DEF WipeRestart
    <3> QED BY <1>3, <2>6, <3>1, RestartWorks
  <2> QED BY <1>3, <2>1, <2>2, <2>3, <2>4, <2>5, <2>6, WipeCases
<1> QED BY <1>1, <1>2, <1>3 DEF WipeNext

LEMMA EraserClockStep ==
    ASSUME Typed, Typed', EraserClock, [WipeNext]_wv
    PROVE  EraserClock'
<1> USE DEF EraserClock
<1>0. Gap \in Nat
  BY WipeAssumption
<1>1. CASE Ticks /\ UNCHANGED wipeVars
  BY <1>0, <1>1, Fields DEF Ticks, WipeDeadlines, wipeVars
<1>2. CASE UNCHANGED wv
  BY <1>2 DEF wv, wipeVars
<1>3. CASE WipeStep /\ UNCHANGED now
  <2>1. ASSUME NEW p \in Procs, LoadReads(p) \/ LoadLands(p) PROVE EraserClock'
    BY <1>3, <2>1 DEF LoadReads, LoadLands
  <2>2. ASSUME NEW w \in Works, Working(w) PROVE EraserClock'
    BY <1>3, <2>2, WorkingLeaves
  <2>3. ASSUME NEW e \in Erasers, Moves(e, EraserPCs) PROVE EraserClock'
    BY <1>0, <1>3, <2>3, Domains, Fields DEF Moves, At, Goes, Untimed
  <2>4. ASSUME NEW e \in Erasers, Moves(e, EraserPCs \ {"stamped"}) PROVE EraserClock'
    BY <2>3, <2>4 DEF Moves
  <2>5. ASSUME NEW p \in Procs \cup {Elsewhere}, WipeRestart(p) PROVE EraserClock'
    BY <1>3, <2>5 DEF WipeRestart, Idle
  <2> QED BY <1>3, <2>1, <2>2, <2>3, <2>4, <2>5, WipeCases, QuietMoves, RemembersMoves, StampsMoves
<1> QED BY <1>1, <1>2, <1>3 DEF WipeNext

LEMMA PurgeClockStep ==
    ASSUME Typed, Typed', EraserClock, PurgeClock, [WipeNext]_wv
    PROVE  PurgeClock'
<1> USE DEF PurgeClock
<1>0. Fence \in Nat /\ Gap \in Nat
  BY WipeAssumption
<1>1. CASE Ticks /\ UNCHANGED wipeVars
  BY <1>0, <1>1, Fields DEF Ticks, wipeVars
<1>2. CASE UNCHANGED wv
  BY <1>2 DEF wv, wipeVars
<1>3. CASE WipeStep /\ UNCHANGED now
  <2>1. ASSUME NEW p \in Procs, LoadReads(p) \/ LoadLands(p) PROVE PurgeClock'
    BY <1>3, <2>1 DEF LoadReads, LoadLands
  <2>2. ASSUME NEW w \in Works, Working(w) PROVE PurgeClock'
    <3>1. CASE Inserts(w)
      <4>1. wipe.st = "purged" => wipe.purgedAt + Fence <= now
        BY <1>0, <3>1, Fields DEF Inserts, klorn_data_wipe_check
      <4> QED BY <1>3, <2>2, <4>1, WorkingLeaves
    <3>2. CASE ~Inserts(w)
      <4>1. rows' \subseteq rows
        BY <2>2, <3>2 DEF Working, WorkBegins, HookAllows, HookRejects, TriggerRejects, RowRemoved
      <4> QED BY <1>3, <2>2, <4>1, WorkingLeaves
    <3> QED BY <3>1, <3>2
  <2>3. ASSUME NEW e \in Erasers, UNCHANGED <<wipe, rows>>, Moves(e, EraserPCs \ {"stamped"})
        PROVE  PurgeClock'
    BY <1>3, <2>3, Domains DEF Moves, At, Goes
  <2>4. ASSUME NEW e \in Erasers, Stamps(e) PROVE PurgeClock'
    <3>1. CASE recordWipeAndRevoke(e)
      BY <3>1 DEF recordWipeAndRevoke
    <3>2. CASE Purges(e)
      <4>1. wipe'.purgedAt = now /\ rows' = {}
        BY <3>2, Fields DEF Purges
      <4>2. \A f \in Erasers : eraser'[f].pc = "stamped" => eraser'[f].stamp <= now
        BY <3>2, Domains, Fields DEF Purges, At, EraserClock
      <4> QED BY <1>3, <4>1, <4>2, Fields
    <3>3. CASE AccountGoes(e)
      BY <3>3 DEF AccountGoes, NoWipe
    <3> QED BY <2>4, <3>1, <3>2, <3>3 DEF Stamps
  <2>5. ASSUME NEW p \in Procs \cup {Elsewhere}, WipeRestart(p) PROVE PurgeClock'
    BY <1>3, <2>5 DEF WipeRestart, Idle
  <2> QED BY <1>3, <2>1, <2>2, <2>3, <2>4, <2>5, WipeCases, QuietMoves, RemembersMoves
<1> QED BY <1>1, <1>2, <1>3 DEF WipeNext

-----------------------------------------------------------------------------
(* What the processes know.                                                *)

LEMMA KnownStep ==
    ASSUME Typed, Typed', SnapshotClock, EraserClock, PurgeClock, Known, [WipeNext]_wv
    PROVE  Known'
<1>0. /\ Fence \in Nat /\ Gap \in Nat /\ Refresh \in Nat
      /\ \A p \in Procs : Offset[p] \in Int /\ Offset[p] < Fence - Gap
  BY WipeAssumption
<1>1. CASE UNCHANGED wipeVars
  BY <1>1 DEF wipeVars, Known, Knows
<1>2. CASE WipeStep /\ UNCHANGED now
  <2>1. ASSUME NEW p \in Procs, LoadReads(p) PROVE Known'
    <3>1. wipe.st = "purged" => Knows(p, loadFences(p))
      <4>1. wipe.purgedAt + Fence > started[p] + Offset[p] \/ wipe.purgedAt < started[p]
        BY <1>0, Fields
      <4>2. wipe.purgedAt + Offset[p] < wipe.purgedAt + Fence
        BY <1>0, Fields
      <4> QED BY <4>1, <4>2 DEF loadFences, Knows
    <3>2. \A q \in Procs : q # p => loading'[q] = loading[q]
      BY <2>1, Domains DEF LoadReads
    <3>3. loading'[p] = loadFences(p)
      BY <2>1, Domains DEF LoadReads
    <3> QED BY <2>1, <3>1, <3>2, <3>3 DEF Known, Knows, LoadReads
  <2>2. ASSUME NEW p \in Procs, LoadLands(p) PROVE Known'
    BY <2>2, Domains DEF LoadLands, NotLoading, Known, Knows
  <2>3. ASSUME NEW w \in Works, Working(w) PROVE Known'
    BY <2>3, WorkingLeaves DEF Known, Knows
  <2>4. ASSUME NEW e \in Erasers, Quiet(e) PROVE Known'
    BY <2>4, QuietMoves DEF Known, Knows
  <2>5. ASSUME NEW e \in Erasers, Remembers(e) PROVE Known'
    <3>1. UNCHANGED <<wipe, loading, started>>
      BY <2>5, RemembersMoves
    <3>2. ASSUME wipe.st = "purged", NEW p \in Procs
          PROVE  Knows(p, snapshot'[p])
      <4>1. Knows(p, snapshot[p])
        BY <3>2 DEF Known
      <4>2. CASE RemembersPending(e)
        BY <4>1, <4>2, Domains DEF RemembersPending, rememberDataWipe, Knows
      <4>3. CASE RemembersPurged(e)
        <5>1. eraser[e].stamp <= wipe.purgedAt /\ now <= eraser[e].stamp + Gap /\ wipe.purgedAt <= now
          BY <3>2, <4>3 DEF RemembersPurged, PurgeClock, EraserClock
        <5>2. wipe.purgedAt + Offset[p] < eraser[e].stamp + Fence
          BY <1>0, <5>1, Fields
        <5> QED BY <4>1, <4>3, <5>2, Domains DEF RemembersPurged, rememberDataWipe, Knows
      <4> QED BY <2>5, <4>2, <4>3 DEF Remembers
    <3> QED BY <3>1, <3>2 DEF Known, Knows
  <2>6. ASSUME NEW e \in Erasers, Stamps(e) PROVE Known'
    <3>1. UNCHANGED <<snapshot, loading, started>>
      BY <2>6, StampsMoves
    <3>2. CASE Purges(e)
      <4>1. wipe'.purgedAt = now
        BY <3>2, Fields DEF Purges
      <4> QED BY <3>1, <4>1 DEF Known, Knows, SnapshotClock
    <3>3. CASE recordWipeAndRevoke(e) \/ AccountGoes(e)
      BY <3>3 DEF recordWipeAndRevoke, AccountGoes, NoWipe, Known
    <3> QED BY <2>6, <3>2, <3>3 DEF Stamps
  <2>7. ASSUME NEW p \in Procs \cup {Elsewhere}, WipeRestart(p) PROVE Known'
    <3>1. ASSUME NEW q \in Procs, q # p
          PROVE  UNCHANGED <<snapshot[q], loading[q], started[q]>>
      BY <2>7, <3>1 DEF WipeRestart
    <3>2. ASSUME NEW q \in Procs, q = p
          PROVE  snapshot'[q].at = now /\ loading'[q].st = "idle" /\ started'[q] = now
      BY <2>7, <3>2 DEF WipeRestart, Nothing, NotLoading
    <3>3. UNCHANGED wipe
      BY <2>7 DEF WipeRestart
    <3>4. now <= wipe.purgedAt \/ wipe.purgedAt < now
      BY Fields
    <3> QED BY <3>1, <3>2, <3>3, <3>4 DEF Known, Knows
  <2> QED BY <1>2, <2>1, <2>2, <2>3, <2>4, <2>5, <2>6, <2>7, WipeCases
<1> QED BY <1>1, <1>2 DEF WipeNext, wv

-----------------------------------------------------------------------------
(* What the works may write.                                               *)

LEMMA HookedStep ==
    ASSUME Typed, Typed', SnapshotClock, WorkClock, Known, Hooked, [WipeNext]_wv
    PROVE  Hooked'
<1>0. Refresh \in Nat /\ \A p \in Procs : Offset[p] \in Int
  BY WipeAssumption
<1>1. CASE UNCHANGED wipeVars
  BY <1>1 DEF wipeVars, Hooked
<1>2. CASE WipeStep /\ UNCHANGED now
  <2>1. ASSUME NEW p \in Procs, LoadReads(p) \/ LoadLands(p) PROVE Hooked'
    BY <2>1 DEF LoadReads, LoadLands, Hooked
  <2>2. ASSUME NEW w \in Works, Working(w) PROVE Hooked'
    <3>1. UNCHANGED wipe
      BY <2>2, WorkingLeaves
    <3>2. CASE HookAllows(w)
      <4>1. SUFFICES ASSUME wipe.st = "purged"
                     PROVE  wipe.purgedAt < work[w].began \/ now <= wipe.purgedAt + Refresh
        BY <3>1, <3>2, <4>1, WorkSteps, Domains DEF Hooked
      <4> DEFINE p == work[w].proc
      <4>2. p \in Procs /\ started[p] <= work[w].began
        BY <3>2 DEF HookAllows, WorkClock
      <4>3. now <= snapshot[p].at + Refresh
        BY <4>2 DEF SnapshotClock
      <4>4. snapshot[p].st # "pending"
        BY <3>2 DEF HookAllows, blocks
      <4>5. snapshot[p].st = "purged" => ~(work[w].began + Offset[p] < snapshot[p].until)
        BY <3>2 DEF HookAllows, blocks, stamp
      <4>6. Knows(p, snapshot[p])
        BY <4>1, <4>2 DEF Known
      <4>7. /\ snapshot[p].at \in Nat /\ snapshot[p].until \in Nat /\ started[p] \in Nat
            /\ Offset[p] \in Int /\ work[w].began \in Nat /\ wipe.purgedAt \in Nat /\ now \in Nat
        BY <1>0, <4>2, Fields
      <4> HIDE DEF p
      <4>8. CASE snapshot[p].at <= wipe.purgedAt
        BY <1>0, <4>3, <4>7, <4>8
      <4>9. CASE snapshot[p].st = "purged" /\ wipe.purgedAt + Offset[p] < snapshot[p].until
        BY <4>5, <4>7, <4>9
      <4>10. CASE wipe.purgedAt < started[p]
        BY <4>2, <4>7, <4>10
      <4> QED BY <4>4, <4>6, <4>8, <4>9, <4>10 DEF Knows
    <3>3. CASE (\E p \in Procs : WorkBegins(w, p)) \/ HookRejects(w) \/ Inserts(w) \/ TriggerRejects(w)
      BY <3>1, <3>3, WorkSteps, Domains DEF Hooked
    <3>4. CASE RowRemoved(w)
      BY <3>4 DEF RowRemoved, Hooked
    <3> QED BY <2>2, <3>2, <3>3, <3>4 DEF Working
  <2>3. ASSUME NEW e \in Erasers, Quiet(e) PROVE Hooked'
    BY <2>3, QuietMoves DEF Hooked
  <2>4. ASSUME NEW e \in Erasers, Remembers(e) PROVE Hooked'
    BY <2>4, RemembersMoves DEF Hooked
  <2>5. ASSUME NEW e \in Erasers, Stamps(e) PROVE Hooked'
    <3>1. UNCHANGED work
      BY <2>5, StampsMoves
    <3>2. CASE Purges(e)
      <4>1. wipe'.purgedAt = now
        BY <3>2, Fields DEF Purges
      <4>2. \A w \in Works : work[w].pc = "checked" => work[w].checked <= now + Refresh
        BY <1>0, Fields DEF WorkClock
      <4> QED BY <3>1, <4>1, <4>2 DEF Hooked
    <3>3. CASE recordWipeAndRevoke(e) \/ AccountGoes(e)
      BY <3>3 DEF recordWipeAndRevoke, AccountGoes, NoWipe, Hooked
    <3> QED BY <2>5, <3>2, <3>3 DEF Stamps
  <2>6. ASSUME NEW p \in Procs \cup {Elsewhere}, WipeRestart(p) PROVE Hooked'
    <3>1. UNCHANGED wipe
      BY <2>6 DEF WipeRestart
    <3> QED BY <2>6, <3>1, RestartWorks DEF Hooked
  <2> QED BY <1>2, <2>1, <2>2, <2>3, <2>4, <2>5, <2>6, WipeCases
<1> QED BY <1>1, <1>2 DEF WipeNext, wv

LEMMA RowsStep ==
    ASSUME Typed, Typed', WorkClock, Hooked, RowsWritten, NothingOldSurvives, [WipeNext]_wv
    PROVE  RowsWritten' /\ NothingOldSurvives'
<1>0. Refresh \in Nat /\ Gap \in Nat /\ Fence \in Nat /\ Refresh + Gap < Fence
  BY WipeAssumption
<1> USE DEF RowsWritten, NothingOldSurvives
<1>1. CASE UNCHANGED wipeVars
  BY <1>1 DEF wipeVars
<1>2. CASE WipeStep /\ UNCHANGED now
  <2> DEFINE Goal == RowsWritten' /\ NothingOldSurvives'
  <2>1. ASSUME NEW p \in Procs, LoadReads(p) \/ LoadLands(p) PROVE Goal
    BY <2>1 DEF LoadReads, LoadLands
  <2>2. ASSUME NEW w \in Works, Working(w) PROVE Goal
    <3>1. UNCHANGED wipe /\ rows \subseteq Works
      BY <2>2, WorkingLeaves DEF Typed, WipeTypes
    <3>2. CASE Inserts(w)
      <4>1. ASSUME wipe.st = "purged" PROVE wipe.purgedAt < work[w].began
        <5>1. wipe.purgedAt + Fence <= now
          BY <1>0, <3>2, <4>1, Fields DEF Inserts, klorn_data_wipe_check
        <5>2. now <= work[w].checked + Gap
          BY <3>2 DEF Inserts, WorkClock
        <5>3. wipe.purgedAt < work[w].began \/ work[w].checked <= wipe.purgedAt + Refresh
          BY <3>2, <4>1 DEF Inserts, Hooked
        <5>4. /\ work[w].began \in Nat /\ work[w].checked \in Nat /\ now \in Nat
              /\ wipe.purgedAt \in Nat
          BY Fields
        <5> QED BY <1>0, <5>1, <5>2, <5>3, <5>4
      <4>2. rows' = rows \cup {w}
        BY <3>2 DEF Inserts
      <4> QED BY <3>1, <3>2, <4>1, <4>2, WorkSteps, Domains
    <3>3. CASE \/ \E p \in Procs : WorkBegins(w, p)
               \/ HookAllows(w) \/ HookRejects(w) \/ TriggerRejects(w)
      <4>1. rows' = rows /\ w \notin rows
        BY <3>3 DEF WorkBegins, HookAllows, HookRejects, TriggerRejects
      <4> QED BY <3>1, <3>3, <4>1, WorkSteps, Domains
    <3>4. CASE RowRemoved(w)
      BY <3>4 DEF RowRemoved
    <3> QED BY <2>2, <3>2, <3>3, <3>4 DEF Working
  <2>3. ASSUME NEW e \in Erasers, Quiet(e) PROVE Goal
    BY <2>3, QuietMoves
  <2>4. ASSUME NEW e \in Erasers, Remembers(e) PROVE Goal
    BY <2>4, RemembersMoves
  <2>5. ASSUME NEW e \in Erasers, Stamps(e) PROVE Goal
    BY <2>5, StampsMoves DEF Stamps, recordWipeAndRevoke, Purges, AccountGoes
  <2>6. ASSUME NEW p \in Procs \cup {Elsewhere}, WipeRestart(p) PROVE Goal
    <3>1. UNCHANGED <<wipe, rows>> /\ rows \subseteq Works
      BY <2>6 DEF WipeRestart, Typed, WipeTypes
    <3> QED BY <2>6, <3>1, RestartWorks
  <2> HIDE DEF Goal
  <2>7. Goal
    BY <1>2, <2>1, <2>2, <2>3, <2>4, <2>5, <2>6, WipeCases
  <2> QED BY <2>7 DEF Goal
<1> QED BY <1>1, <1>2 DEF WipeNext, wv

-----------------------------------------------------------------------------
LEMMA FenceInit == ASSUME WipeInit, now = 0 PROVE FenceInv
<1>1. Typed
  BY TypedInit
<1>2. Refresh \in Nat /\ Gap \in Nat
  BY WipeAssumption
<1>3. SnapshotClock /\ WorkClock /\ EraserClock
  BY <1>2 DEF WipeInit, SnapshotClock, WorkClock, EraserClock, Nothing, NotLoading, NewWork, Idle
<1>4. PurgeClock /\ Known /\ Hooked /\ RowsWritten /\ NothingOldSurvives
  BY DEF WipeInit, NoWipe, PurgeClock, Known, Hooked, RowsWritten, NothingOldSurvives
<1> QED BY <1>1, <1>3, <1>4 DEF FenceInv

LEMMA FenceStep == ASSUME FenceInv, [WipeNext]_wv PROVE FenceInv'
<1> USE DEF FenceInv
<1>1. Typed'
  BY TypedStep
<1>2. SnapshotClock' /\ WorkClock' /\ EraserClock' /\ PurgeClock'
  BY <1>1, SnapshotClockStep, WorkClockStep, EraserClockStep, PurgeClockStep
<1>3. Known' /\ Hooked' /\ RowsWritten' /\ NothingOldSurvives'
  BY <1>1, KnownStep, HookedStep, RowsStep
<1> QED BY <1>1, <1>2, <1>3

(* The fence by itself: no row of work that began before the last purge.   *)
(* It holds whatever the system around the fence does (WipeSpec leaves     *)
(* the account, the faults and the stored objects free).                   *)
THEOREM FenceHolds == WipeSpec => []NothingOldSurvives
<1>1. WipeInit /\ now = 0 => FenceInv
  BY FenceInit
<1>2. FenceInv /\ [WipeNext]_<<now, wipeVars>> => FenceInv'
  BY FenceStep DEF wv
<1>3. FenceInv => NothingOldSurvives
  BY DEF FenceInv
<1> QED BY <1>1, <1>2, <1>3, PTL DEF WipeSpec

=============================================================================
