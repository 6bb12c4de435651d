------------------------------- MODULE MCAhci -------------------------------
(* Two sectors with two contents; one of the two buffers also takes the     *)
(* passport.                                                                *)
EXTENDS Ahci

CONSTANTS l1, l2, b1, b2, d1, d2
=============================================================================
