----------------------------- MODULE MCEngine -----------------------------
(* Engine on two tasks. *)
EXTENDS Engine
=============================================================================
