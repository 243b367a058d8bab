----------------------------- MODULE MCProgress -----------------------------
(* Instances of Progress for TLC.                                           *)
EXTENDS Progress

CONSTANTS a1, a2, a3

ThreeActivities == {a1, a2, a3}
=============================================================================
