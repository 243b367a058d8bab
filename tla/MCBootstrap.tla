----------------------------- MODULE MCBootstrap ----------------------------
(* Instances of Bootstrap for TLC.                                          *)
EXTENDS Bootstrap

CONSTANTS v, p, q, g1, g2, g3, g4, none, appliance1, appliance2

AllPasswords == {v, p, q, g1, g2, g3, g4}
Changing     == {p, q}
Mixed        == {p, q, none}
OneName      == {appliance1}
TwoNames     == {appliance1, appliance2}
=============================================================================
