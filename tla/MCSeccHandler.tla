---------------------------- MODULE MCSeccHandler ----------------------------
(* The instance of SeccHandler that TLC checks. *)
EXTENDS SeccHandler
=============================================================================
