----------------------------- MODULE MCCostGuard -----------------------------
(***************************************************************************)
(* Model checking CostGuard: two calls, alike until they start, each with two charges.          *)
(***************************************************************************)
EXTENDS CostGuard, TLC

CONSTANTS c1, c2, alice

MCCalls == {c1, c2}
MCUsers == {alice}
MCFreeUsers == {alice}
MCPrices == {1, 3}
MCCosts == {1, 4}
MCFaults == {"plan", "read", "ledger", "ceiling", "restart"}

CallSymmetry == Permutations(MCCalls)
=============================================================================
