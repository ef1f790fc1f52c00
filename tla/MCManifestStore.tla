-------------------------- MODULE MCManifestStore --------------------------
(* Small instances of ManifestStore for TLC. *)
EXTENDS ManifestStore, TLC

(* The writers are interchangeable. *)
Symmetry == Permutations(Writers)
=============================================================================
