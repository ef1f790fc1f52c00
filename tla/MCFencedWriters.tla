-------------------------- MODULE MCFencedWriters --------------------------
(* A few processes that open the same database, for TLC. *)
EXTENDS FencedWriters
=============================================================================
