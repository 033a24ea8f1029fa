--------------------------- MODULE MC_Threadlets ---------------------------
(* Small instances of Threadlets.                                          *)
EXTENDS Threadlets
=============================================================================
