----------------------------- MODULE MCStartup -----------------------------
(* The stack with two attacker sessions.                                    *)
EXTENDS Startup

MCSessions == 1..2
=============================================================================
