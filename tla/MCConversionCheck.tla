------------------------- MODULE MCConversionCheck --------------------------
(* ConversionCheck for TLC.                                                 *)
EXTENDS ConversionCheck

=============================================================================
