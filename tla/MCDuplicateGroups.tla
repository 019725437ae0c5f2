------------------------- MODULE MCDuplicateGroups -------------------------
(* Small instances of DuplicateGroups for TLC.                             *)
EXTENDS DuplicateGroups
=============================================================================
