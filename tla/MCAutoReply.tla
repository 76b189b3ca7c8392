---------------------------- MODULE MCAutoReply ----------------------------
(* Small instances of AutoReply for TLC.                                   *)
EXTENDS AutoReply, TLC

\* User cycles are interchangeable.
MCSymmetry == Permutations(Cycles)
=============================================================================
