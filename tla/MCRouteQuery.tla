---------------------------- MODULE MCRouteQuery ----------------------------
(* Small instances of RouteQuery for TLC. *)
EXTENDS RouteQuery
=============================================================================
