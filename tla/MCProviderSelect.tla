-------------------------- MODULE MCProviderSelect --------------------------
(* Small instances of ProviderSelect for TLC. *)
EXTENDS ProviderSelect

CONSTANTS p1, p2, p3
=============================================================================
