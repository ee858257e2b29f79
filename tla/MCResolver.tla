----------------------------- MODULE MCResolver -----------------------------
(* Small instances of Resolver. *)
EXTENDS Resolver
=============================================================================
