------------------------------ MODULE MCReseed ------------------------------
(* Two ingests and two runs of the demo data scripts.                      *)
EXTENDS Reseed

CONSTANTS s1, s2, p1, p2, ipA
=============================================================================
