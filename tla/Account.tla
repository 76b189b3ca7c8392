------------------------------- MODULE Account -------------------------------
(***************************************************************************)
(* What the erasure of one account's data and of its stored objects share: *)
(* the clock (the database's), the processes, the units of work that write *)
(* for the account, the calls that erase it, and the budget of faults.     *)
(***************************************************************************)
EXTENDS Integers

CONSTANTS
    Procs,      \* the processes that work for the account
    Works,      \* units of work: each writes a row, for an upload or not
    Requests,   \* DELETE requests of the account's owner
    Sweeps,     \* runs of the data-wipe sweep
    Sweeper,    \* the sweep of the storage purges
    Elsewhere,  \* a process that erases and does no work for the account
    Home,       \* the process a request or a sweep runs in
    MaxNow,     \* bound: the clock
    MaxFaults   \* bound: crashes and failures

Erasers == Requests \cup Sweeps

ASSUME AccountAssumption ==
    /\ Elsewhere \notin Procs
    /\ Requests \cap Sweeps = {} /\ Sweeper \notin Erasers
    /\ Home \in [Erasers \cup {Sweeper} -> Procs \cup {Elsewhere}]
    /\ MaxNow \in Nat /\ MaxFaults \in Nat

VARIABLES
    now,        \* the clock
    alive,      \* the account exists
    faults      \* crashes and failures so far (ghost)

Times == 0 .. MaxNow

Fault ==
    /\ faults < MaxFaults
    /\ faults' = faults + 1
=============================================================================
