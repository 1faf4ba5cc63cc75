---------------------------- MODULE MCAssessment ----------------------------
(* The assessment with the defaults of core/intel/config.py, a foreign     *)
(* malicious address, a home address and a private one.                    *)
EXTENDS Assessment

MCWeight ==
  [ repeated_attempts |-> 20, common_brute_force_username |-> 15,
    known_malicious_ip |-> 40, foreign_asn |-> 10, malware_download |-> 20,
    persistence_attempt |-> 15, reconnaissance |-> 5 ]

MCGeoCountry == [ i \in {"foreign", "home", "private"} |->
                    CASE i = "foreign" -> "ru" [] i = "home" -> "in" [] OTHER -> NoCountry ]
=============================================================================
