-------------------------- MODULE MCOperationQueue --------------------------
(* Small instances of OperationQueue for TLC. *)
EXTENDS OperationQueue, TLC

\* Schedulers are only ever compared.
Symmetric == Permutations(Schedulers)

=============================================================================
