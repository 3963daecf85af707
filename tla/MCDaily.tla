------------------------------ MODULE MCDaily ------------------------------
(* Daily on a small instance.                                              *)
EXTENDS Daily, TLC

\* Requests are interchangeable.
Symmetry == Permutations(Task)
=============================================================================
