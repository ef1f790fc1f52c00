-------------------------- MODULE MCCompactionJob --------------------------
(* Jobs over a few small L0 SSTs, for TLC. *)
EXTENDS CompactionJob

(* Keys with common prefixes, one of them a prefix of another. *)
ShortKeys == {<<1, 1>>, <<1, 2>>, <<1, 2, 1>>, <<2>>}
=============================================================================
