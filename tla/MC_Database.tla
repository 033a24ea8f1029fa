---------------------------- MODULE MC_Database ----------------------------
(* Small instances of Database.                                            *)
EXTENDS Database
=============================================================================
