----------------------------- MODULE MCRouting -----------------------------
(* Instances of Routing for TLC. *)
EXTENDS Routing
=============================================================================
