------------------------ MODULE MCDirectCertificate ------------------------
(* An instance of DirectCertificate for TLC.                                *)
EXTENDS DirectCertificate

CONSTANTS old, new, vendor

TwoNames == {old, new}
=============================================================================
