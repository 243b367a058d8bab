------------------------ MODULE MCServiceEnablement -------------------------
(* Instances of ServiceEnablement for TLC.                                  *)
EXTENDS ServiceEnablement

CONSTANTS i1, i2, i3

ThreeInstallers == {i1, i2, i3}
TwoEnabling     == {i1, i2}
=============================================================================
