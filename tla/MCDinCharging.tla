---------------------------- MODULE MCDinCharging ----------------------------
(* The instance of DinCharging that TLC checks; DinCharging has no others. *)
EXTENDS DinCharging
=============================================================================
