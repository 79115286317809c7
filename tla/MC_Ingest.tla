------------------------------ MODULE MC_Ingest ------------------------------
(***************************************************************************)
(* Small instances of IndexerIngest.  Slot 1 is before v2, so that a chain *)
(* may start with transactions that only move the cursor.  The assumption  *)
(* of StorageFixture is checked with them.                                 *)
(***************************************************************************)
EXTENDS IndexerIngest, StorageFixture, TLC

CONSTANTS er1, er2
=============================================================================
