------------------------------ MODULE MCReads ------------------------------
(* Four attacks of two sources: one is stored late, two tie in time, and     *)
(* their scores lie at the bounds of the levels.                             *)
EXTENDS Reads

MCSource == <<"a", "b", "a", "b">>
MCTime == <<2, 1, 3, 3>>
MCScore == <<70, 95, 71, 30>>
=============================================================================
