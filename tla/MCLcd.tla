------------------------------- MODULE MCLcd -------------------------------
(* Two layers, the most the LTDC has. *)
EXTENDS Lcd
=============================================================================
