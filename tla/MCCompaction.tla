---------------------------- MODULE MCCompaction ----------------------------
(* Writer and compactor of one process, for TLC. *)
EXTENDS Compaction
=============================================================================
