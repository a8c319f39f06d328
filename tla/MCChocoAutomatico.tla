-------------------------- MODULE MCChocoAutomatico --------------------------
(* ChocoAutomatico with one seat and a few hosts.                            *)
EXTENDS ChocoAutomatico
=============================================================================
