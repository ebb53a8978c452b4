------------------------------ MODULE MCAlerts ------------------------------
(* Small instances of Alerts.                                              *)
EXTENDS Alerts
=============================================================================
