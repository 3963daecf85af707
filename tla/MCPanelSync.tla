---------------------------- MODULE MCPanelSync ----------------------------
(* Instances of PanelSync for TLC. *)
EXTENDS PanelSync, TLC

Symmetry == Permutations(Task)
=============================================================================
