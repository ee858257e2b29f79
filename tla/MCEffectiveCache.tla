-------------------------- MODULE MCEffectiveCache --------------------------
(* Small instances of EffectiveCache for TLC. *)
EXTENDS EffectiveCache
=============================================================================
