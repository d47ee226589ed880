---------------------------- MODULE MCManagedTx -----------------------------
(* Instances of ManagedTx for TLC; the cfg files give the constants. *)
EXTENDS ManagedTx, TLC

\* Tasks are interchangeable: no action or invariant names one.
Symmetry == Permutations(Task)
=============================================================================
