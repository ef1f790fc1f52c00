---------------------------- MODULE MCWritePath ----------------------------
(* The write path, with or without application goroutines that flush. *)
EXTENDS WritePathRefines
=============================================================================
