--------------------------- MODULE MCDatabaseFile ----------------------------
(* Instances of DatabaseFile for TLC.                                      *)
EXTENDS DatabaseFile

CONSTANTS t1
=============================================================================
