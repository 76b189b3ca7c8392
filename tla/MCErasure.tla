----------------------------- MODULE MCErasure -----------------------------
(* One process, one unit of work (an upload or not), a request served by   *)
(* that process, and the two sweeps in another; its clock is one ahead of  *)
(* the database's.                                                         *)
EXTENDS Erasure, TLC
CONSTANTS p1, w1, req, sweep
MCProcs == {p1}
MCWorks == {w1}
MCRequests == {req}
MCSweeps == {sweep}
MCHome == (req :> p1) @@ (sweep :> Elsewhere) @@ (Sweeper :> Elsewhere)
MCOffset == p1 :> 1
=============================================================================
