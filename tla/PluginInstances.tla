-------------------------- MODULE PluginInstances --------------------------
(***************************************************************************)
(* The instances of the plug-in on one machine, in one process or many.    *)
(***************************************************************************)

CONSTANTS
    Instances,   \* the plug-in instances
    None         \* no instance, no file, no bank
=============================================================================
