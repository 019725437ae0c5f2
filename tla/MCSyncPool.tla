----------------------------- MODULE MCSyncPool -----------------------------
(* A pool of four objects for TLC.                                         *)
EXTENDS SyncPool
=============================================================================
