---------------------------- MODULE MCSyncImport ----------------------------
(* Small instances of SyncImport for TLC.                                  *)
EXTENDS SyncImport, TLC

CONSTANTS f1, f2, a, b, j1
=============================================================================
