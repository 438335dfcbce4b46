-------------------------- MODULE MCParameterMailbox --------------------------
(***************************************************************************)
(* Instances of ParameterMailbox for TLC: three plug-ins compete for two   *)
(* entries, so the second scan of publish() has to recycle.                *)
(***************************************************************************)
EXTENDS ParameterMailbox

CONSTANTS p1, p2, p3
MCPlugins == {p1, p2, p3}
=============================================================================
