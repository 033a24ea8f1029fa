------------------------------ MODULE MC_Wire ------------------------------
(* Small instances of Wire.                                                *)
EXTENDS Wire

Lengths == [body |-> 8, octets |-> 5, text |-> 8, command |-> 7, response |-> 3]
=============================================================================
