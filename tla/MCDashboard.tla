---------------------------- MODULE MCDashboard ----------------------------
(* One dashboard page and the events of a few attacks.                     *)
EXTENDS Dashboard

MCAttacks == 1..2
=============================================================================
