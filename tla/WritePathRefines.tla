-------------------------- MODULE WritePathRefines --------------------------
(***************************************************************************)
(* The write path implements the abstract durable store: the writes that   *)
(* are not lost are those of log, and those up to the last one that a      *)
(* process that opened the database now would find are durable.           *)
(***************************************************************************)
EXTENDS WritePath

(* Every step of the tasks, of Open and of Close, of a crash and of a       *)
(* failed upload is a step of DurableKV, or changes nothing that its        *)
(* callers see.                                                             *)
Abstract == INSTANCE DurableKV WITH durable <- DurableCount
ImplementsDurableKV == Abstract!Spec

=============================================================================
