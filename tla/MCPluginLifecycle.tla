------------------------- MODULE MCPluginLifecycle -------------------------
(***************************************************************************)
(* Three filters: enough for one under construction, one registered and    *)
(* one being destroyed at the moment of the unload.                        *)
(***************************************************************************)
EXTENDS PluginLifecycle

CONSTANTS f1, f2, f3
============================================================================
