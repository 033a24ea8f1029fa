----------------------------- MODULE MC_Socket -----------------------------
(* Small instances of Socket.                                              *)
EXTENDS Socket
=============================================================================
