------------------------------ MODULE MCIngest ------------------------------
(* Small instances of the ingest pipeline: default risk weights, a foreign *)
(* and a private address, a silent probe and a noisy session.              *)
EXTENDS Ingest, TLC

CONSTANTS s1, s2, s3, ipA, ipB

MCWeight ==
  [ repeated_attempts |-> 20, common_brute_force_username |-> 15,
    known_malicious_ip |-> 40, foreign_asn |-> 10, malware_download |-> 20,
    persistence_attempt |-> 15, reconnaissance |-> 5 ]

MCGeoCountry == [i \in IPs |-> IF i = ipA THEN "ru" ELSE NoCountry]

Probe == [username |-> "absent", auth_attempts |-> 0, commands |-> {}]
BruteForce == [username |-> "common", auth_attempts |-> 2, commands |-> {{"tool_transfer"}}]

MCInputs == {Probe, BruteForce}

Symmetry == Permutations(Sessions)
=============================================================================
