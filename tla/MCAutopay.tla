----------------------------- MODULE MCAutopay -----------------------------
(* Autopay on small instances.                                             *)
EXTENDS Autopay, TLC

\* Webhooks in progress do not differ; for instances without liveness.
Symmetry == Permutations(Hook)
=============================================================================
