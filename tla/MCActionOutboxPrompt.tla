------------------------ MODULE MCActionOutboxPrompt ------------------------
(***************************************************************************)
(* The outbox while every attempt ends within the stale window and every   *)
(* database statement succeeds: crashes and misreporting tools remain.     *)
(* It implements ActionPromise.                                            *)
(***************************************************************************)
EXTENDS ActionOutbox

Promise == INSTANCE ActionPromise WITH
    decision  <- [a \in Actions |-> CASE pa[a] = "PENDING"  -> "proposed"
                                      [] pa[a] = "REJECTED" -> "declined"
                                      [] OTHER              -> "approved"],
    performed <- executed,
    verdict   <- [a \in Actions |-> CASE row[a].status = "COMPLETED" -> "done"
                                      [] row[a].status = "DEAD"      -> "failed"
                                      [] OTHER                       -> "open"]

\* Every approved action runs to one final outcome and is never touched again;
\* a declined one never runs (ActionPromise with its fairness).
KeepsPromise == Promise!FairSpec
=============================================================================
