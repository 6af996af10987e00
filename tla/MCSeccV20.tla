------------------------------ MODULE MCSeccV20 ------------------------------
(* The instance of SeccV20 that TLC checks. *)
EXTENDS SeccV20

\* A station for AC and bidirectional DC that allows standby, and one for DC
\* that also lists a service which no state handles.
Stations ==
    { [standby |-> TRUE, services |-> {"ac", "dc_bpt"}],
      [standby |-> FALSE, services |-> {"dc", "wpt"}] }
=============================================================================
