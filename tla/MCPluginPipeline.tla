-------------------------- MODULE MCPluginPipeline --------------------------
(* The plugin pipeline for TLC; its liveness properties rule out symmetry. *)
EXTENDS PluginPipeline, TLC
=============================================================================
