------------------------------- MODULE Intel -------------------------------
(***************************************************************************)
(* The pure half of the threat-intelligence layer, core/intel: what an IP  *)
(* resolves to (enrichment.py, reputation.py), which behaviours a session  *)
(* shows (behavior.py), which ATT&CK techniques they stand for (mitre.py)  *)
(* and how many risk points they are worth (risk.py, config.py).           *)
(*                                                                         *)
(* A command line is abstracted to the set of _COMMAND_RULES labels whose  *)
(* pattern finds it, a username to whether it is absent, one of            *)
(* brute_force_usernames, or another one.  Behaviour and technique lists   *)
(* never hold an element twice (BehaviorResult.add) and nothing depends on *)
(* their order, so they are sets.                                          *)
(***************************************************************************)
EXTENDS Integers, FiniteSets

CONSTANTS
  Weight,             \* points per reason: RISK_W_* of the environment
  RepeatedThreshold,  \* RISK_REPEATED_THRESHOLD
  LowMax, MediumMax,  \* RISK_LOW_MAX, RISK_MEDIUM_MAX
  HomeCountries,      \* RISK_HOME_COUNTRIES
  PrivateIPs,         \* addresses ipaddress calls private, loopback, ...
  MaliciousIPs,       \* addresses inside a network of the threat feed
  GeoCountry          \* the GeoLite2 country of an address, or NoCountry

NoCountry == "none"
LocalCountry == "LO"

\* The behaviour label of each command rule, with the rule's technique.
RuleTechnique ==
  [ tool_transfer       |-> "T1105",     system_discovery  |-> "T1082",
    user_discovery      |-> "T1033",     account_discovery |-> "T1087",
    ssh_key_persistence |-> "T1098.004", cron_persistence  |-> "T1053.003",
    cryptomining        |-> "T1496",     disable_defenses  |-> "T1562.001",
    script_execution    |-> "T1059",     remote_discovery  |-> "T1018" ]

RuleLabels == DOMAIN RuleTechnique

\* The technique ids mitre.py has metadata for; resolve() drops the others.
CATALOGUE ==
  { "T1110", "T1110.001", "T1078", "T1021.004", "T1105", "T1059", "T1082",
    "T1033", "T1087", "T1018", "T1098.004", "T1053.003", "T1496", "T1562.001" }

resolve(techniques) == techniques \cap CATALOGUE

RiskReasons ==
  { "repeated_attempts", "common_brute_force_username", "known_malicious_ip",
    "foreign_asn", "malware_download", "persistence_attempt", "reconnaissance" }

ASSUME WeightAssumption == Weight \in [RiskReasons -> Int]
ASSUME ThresholdAssumption == RepeatedThreshold \in Int
ASSUME LevelAssumption == LowMax \in Int /\ MediumMax \in Int

---------------------------------------------------------------------------
(* What one session leaves behind for the detectors.                       *)

Usernames == {"absent", "common", "other"}

Evidence == [ username      : Usernames,
              auth_attempts : Nat,
              commands      : SUBSET SUBSET RuleLabels ]

\* EnrichmentService.enrich: the country of an address.  `readers' is FALSE
\* once close() has closed the GeoIP readers: a lookup then raises, the
\* exception is swallowed and the country stays unknown.
enrich(ip, readers) ==
  [ country    |-> IF ip \in PrivateIPs THEN LocalCountry
                   ELSE IF readers THEN GeoCountry[ip] ELSE NoCountry,
    is_private |-> ip \in PrivateIPs ]

is_malicious(ip) == ip \in MaliciousIPs

---------------------------------------------------------------------------
(* BehaviorDetector.detect                                                 *)

common_username(e) == e.username = "common"

total_attempts(e, prior) == e.auth_attempts + prior

\* Each behaviour with the condition under which detect() adds it.
behaviors(e, prior, malicious) ==
  LET shows == UNION e.commands IN
    {b \in RuleLabels : b \in shows}
    \cup {b \in {"common_credential_use"} : common_username(e)}
    \cup {b \in {"brute_force"} : total_attempts(e, prior) >= RepeatedThreshold}
    \cup {b \in {"repeat_offender"} : prior > 0}
    \cup {b \in {"known_malicious_source"} : malicious}
    \cup {b \in {"post_auth_activity"} : e.commands # {}}

\* The technique ids result.add() is given with a behaviour.
TechniquesOf(b) ==
  CASE b \in RuleLabels             -> {RuleTechnique[b]}
    [] b = "common_credential_use"  -> {"T1078"}
    [] b = "brute_force"            -> {"T1110", "T1110.001"}
    [] b = "repeat_offender"        -> {"T1110"}
    [] b = "known_malicious_source" -> {}
    [] b = "post_auth_activity"     -> {"T1021.004"}

techniques(bs) == UNION {TechniquesOf(b) : b \in bs}

---------------------------------------------------------------------------
(* RiskEngine.score                                                        *)

is_foreign(geo) ==
  /\ ~geo.is_private
  /\ geo.country # NoCountry
  /\ HomeCountries # {} => geo.country \notin HomeCountries

repeated_attempts(e, prior) ==
  prior > 0 \/ total_attempts(e, prior) >= RepeatedThreshold

fires(r, e, prior, malicious, geo, bs) ==
  CASE r = "repeated_attempts"           -> repeated_attempts(e, prior)
    [] r = "common_brute_force_username" -> common_username(e)
    [] r = "known_malicious_ip"          -> malicious
    [] r = "foreign_asn"                 -> is_foreign(geo)
    [] r = "malware_download"            ->
         {"tool_transfer", "cryptomining"} \cap bs # {}
    [] r = "persistence_attempt"         ->
         {"ssh_key_persistence", "cron_persistence"} \cap bs # {}
    [] r = "reconnaissance"              ->
         {"system_discovery", "user_discovery", "account_discovery",
          "remote_discovery"} \cap bs # {}

\* reasons: the rules that fired; one of weight 0 is left out.
reasons(e, prior, malicious, geo, bs) ==
  {r \in RiskReasons : Weight[r] # 0 /\ fires(r, e, prior, malicious, geo, bs)}

Points(r, rs) == IF r \in rs THEN Weight[r] ELSE 0

RawScore(rs) ==
  Points("repeated_attempts", rs) + Points("common_brute_force_username", rs)
  + Points("known_malicious_ip", rs) + Points("foreign_asn", rs)
  + Points("malware_download", rs) + Points("persistence_attempt", rs)
  + Points("reconnaissance", rs)

\* Scores without the upper limit.
Clip_None(n) == IF n < 0 THEN 0 ELSE n

\* Scores that wrap round instead of stopping at 100.
Clip_Wrap(n) == n % 101

Clip(n) == IF n < 0 THEN 0 ELSE IF n > 100 THEN 100 ELSE n

score(rs) == Clip(RawScore(rs))

\* A banding with an exclusive upper bound for "medium".
level_for_OffByOne(n) ==
  IF n < LowMax THEN "low" ELSE IF n <= MediumMax THEN "medium" ELSE "high"

level_for(n) ==
  IF n <= LowMax THEN "low" ELSE IF n <= MediumMax THEN "medium" ELSE "high"

\* detect() and score() together, as pipeline.process calls them.
Assess(e, prior, malicious, geo) ==
  LET bs == behaviors(e, prior, malicious)
      rs == reasons(e, prior, malicious, geo, bs)
  IN  [ behaviors |-> bs, techniques |-> techniques(bs), reasons |-> rs,
        score |-> score(rs), level |-> level_for(score(rs)) ]

RiskScores == 0..100
Levels == {"low", "medium", "high"}
Techniques == CATALOGUE
=============================================================================
