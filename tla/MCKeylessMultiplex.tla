------------------------- MODULE MCKeylessMultiplex -------------------------
(* Small instances of KeylessMultiplex for TLC. *)
EXTENDS KeylessMultiplex
=============================================================================
