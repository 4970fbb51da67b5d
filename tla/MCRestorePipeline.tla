-------------------------- MODULE MCRestorePipeline --------------------------
(* Small instances of RestorePipeline for TLC. *)
EXTENDS RestorePipeline, TLC

Symmetric == Permutations(Dirs)

=============================================================================
