-------------------------- MODULE MCDaemonUpgrade --------------------------
(* Small instances of DaemonUpgrade for TLC. *)
EXTENDS DaemonUpgrade
=============================================================================
