----------------------------- MODULE MCThrottle -----------------------------
(* Throttle with the sweep, the moduli and the byte range scaled down. *)
EXTENDS Throttle
=============================================================================
