---------------------------- MODULE MCScriptHost ----------------------------
(* The assemblies of MCScriptLoader behind every outcome of the startup.   *)
EXTENDS MCScriptLoader, ScriptHost

=============================================================================
