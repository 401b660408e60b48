------------------------------ MODULE MCKbSlots ------------------------------
(* Instances of KbSlots for TLC.                                           *)
EXTENDS KbSlots, TLC

CONSTANTS p1, p2

TwoProcs == {p1, p2}
ProcSymmetry == Permutations(Proc)
=============================================================================
