----------------------------- MODULE MCReferral -----------------------------
(* Referral on small instances.                                            *)
EXTENDS Referral, TLC

\* Tasks do not differ, nor do requests.
Symmetry == Permutations(Task) \cup Permutations(Request)
=============================================================================
