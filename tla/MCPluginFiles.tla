--------------------------- MODULE MCPluginFiles ---------------------------
(***************************************************************************)
(* PluginFiles for TLC: the instances are interchangeable.                 *)
(***************************************************************************)
EXTENDS PluginFiles, TLC

Symmetry == Permutations(Instances)
=============================================================================
