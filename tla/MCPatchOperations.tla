-------------------------- MODULE MCPatchOperations --------------------------
(* PatchOperations with up to three rows on one or two hosts.                *)
EXTENDS PatchOperations
=============================================================================
