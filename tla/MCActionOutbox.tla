--------------------------- MODULE MCActionOutbox ---------------------------
(* Small instances of ActionOutbox for TLC.                                *)
EXTENDS ActionOutbox, TLC

\* Request slots are interchangeable.
MCSymmetry == Permutations(Slots)
=============================================================================
