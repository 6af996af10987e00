-------------------------- MODULE MCChargingProfile --------------------------
(* The instance of ChargingProfile that TLC checks. *)
EXTENDS ChargingProfile
=============================================================================
