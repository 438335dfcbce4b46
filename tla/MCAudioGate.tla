----------------------------- MODULE MCAudioGate -----------------------------
(***************************************************************************)
(* Instances of AudioGate for TLC: every control operation, and the few    *)
(* that are enough to meet a refused "os/set" while the host activates, or *)
(* a rebuild that overlaps terminate().                                    *)
(***************************************************************************)
EXTENDS AudioGate

AllOperations == ControlOperations
OversamplingOperations ==
  {"configure", "rebuild", "setActive", "setOversampling", "restoreOversampling"}
RebuildOperations == {"configure", "rebuild"}
=============================================================================
