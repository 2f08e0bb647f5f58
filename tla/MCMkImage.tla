----------------------------- MODULE MCMkImage -----------------------------
(* Scaled-down sizes keep the proportions of the #defines: the gap between *)
(* IVT and QSPI parameters takes a short DCD but not a long one, and a few *)
(* DCD lines exceed the maximum.                                           *)
EXTENDS MkImage

MCFwSizes == {8, 40, 72}
MCDataSizes == {0, 40, 300}
MCAddresses == {10, 50}
MCReserved == {<<20, 30>>}
=============================================================================
