---------------------------- MODULE ReplyPromise ----------------------------
(***************************************************************************)
(* What the unattended replies promise for each mail, without cycles,      *)
(* paths, drafts or faults.  A mail is claimed once.  A reply to it is     *)
(* handed to the provider once, after the claim and while the claim is     *)
(* unsettled, and leaves or does not.  Then the claim is settled at most   *)
(* once: its record is rewritten to one that says nothing false, or it     *)
(* stays "replied" and the mail is taken out of the queue because the      *)
(* reply left.  A settled claim is never touched again.                    *)
(***************************************************************************)
EXTENDS Naturals

CONSTANT Mails

VARIABLES record, handed, gone, answered

vars == <<record, handed, gone, answered>>

Init ==
    /\ record = [m \in Mails |-> "none"]
    /\ handed = [m \in Mails |-> 0]
    /\ gone = [m \in Mails |-> 0]
    /\ answered = [m \in Mails |-> FALSE]

Claim(m) ==
    /\ record[m] = "none"
    /\ \E r \in {"pending", "replied"} : record' = [record EXCEPT ![m] = r]
    /\ UNCHANGED <<handed, gone, answered>>

Unsettled(m) == record[m] \in {"pending", "replied"} /\ ~answered[m]

Hand(m) ==
    /\ Unsettled(m) /\ handed[m] = 0
    /\ handed' = [handed EXCEPT ![m] = 1]
    /\ \E g \in {0, 1} : gone' = [gone EXCEPT ![m] = g]
    /\ UNCHANGED <<record, answered>>

Settle(m) ==
    /\ Unsettled(m) /\ handed[m] = 1
    /\ \E r \in {"sent", "failed", "unconfirmed"} :
         /\ r = "sent" => gone[m] = 1
         /\ r = "failed" => gone[m] = 0
         /\ record' = [record EXCEPT ![m] = r]
    /\ UNCHANGED <<handed, gone, answered>>

Answer(m) ==
    /\ Unsettled(m) /\ handed[m] = 1 /\ gone[m] = 1
    /\ record[m] = "replied"
    /\ answered' = [answered EXCEPT ![m] = TRUE]
    /\ UNCHANGED <<record, handed, gone>>

Next == \E m \in Mails : Claim(m) \/ Hand(m) \/ Settle(m) \/ Answer(m)

Spec == Init /\ [][Next]_vars
=============================================================================
