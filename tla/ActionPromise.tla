---------------------------- MODULE ActionPromise ----------------------------
(***************************************************************************)
(* What the approval queue promises for each proposed action, without      *)
(* handlers, rows, attempts or retries.  The user (or the expiry) decides  *)
(* once.  A declined action never takes effect.  An approved one is        *)
(* performed, possibly more than once, until it is settled, and it is      *)
(* settled in the end: done if it took effect, failed otherwise or when    *)
(* the worker could not tell.  A settled action is never touched again.    *)
(***************************************************************************)
EXTENDS Naturals

CONSTANT Actions

VARIABLES decision, performed, verdict

vars == <<decision, performed, verdict>>

Init ==
    /\ decision = [a \in Actions |-> "proposed"]
    /\ performed = [a \in Actions |-> 0]
    /\ verdict = [a \in Actions |-> "open"]

Decide(a) ==
    /\ decision[a] = "proposed"
    /\ \E d \in {"approved", "declined"} : decision' = [decision EXCEPT ![a] = d]
    /\ UNCHANGED <<performed, verdict>>

\* The expiry sweep declines a set of actions in one statement.
Expire ==
    /\ \E E \in SUBSET {a \in Actions : decision[a] = "proposed"} :
         decision' = [a \in Actions |-> IF a \in E THEN "declined" ELSE decision[a]]
    /\ UNCHANGED <<performed, verdict>>

Owed(a) == decision[a] = "approved" /\ verdict[a] = "open"

Perform(a) ==
    /\ Owed(a)
    /\ performed' = [performed EXCEPT ![a] = @ + 1]
    /\ UNCHANGED <<decision, verdict>>

Settle(a) ==
    /\ Owed(a)
    /\ \E v \in {"done", "failed"} :
         /\ v = "done" => performed[a] > 0
         /\ verdict' = [verdict EXCEPT ![a] = v]
    /\ UNCHANGED <<decision, performed>>

Next == Expire \/ \E a \in Actions : Decide(a) \/ Perform(a) \/ Settle(a)

Spec == Init /\ [][Next]_vars

\* An approved action is settled in the end.
FairSpec == Spec /\ \A a \in Actions : WF_vars(Settle(a))
=============================================================================
