---------------------------- MODULE MCBspModule ----------------------------
(***************************************************************************)
(* Three modules: tty and lcd as in the image, with prepare and setup but  *)
(* no desetup, and one with only a setup and a desetup function.           *)
(***************************************************************************)
EXTENDS BspModule

CONSTANTS tty, lcd, other

MCModules == {tty, lcd, other}
MCHasPrepare == {tty, lcd}
MCHasSetup == {tty, lcd, other}
MCHasDesetup == {other}
=============================================================================
