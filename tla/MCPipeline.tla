----------------------------- MODULE MCPipeline -----------------------------
(* The event path on a small topic, for TLC.                                *)
EXTENDS Pipeline
=============================================================================
