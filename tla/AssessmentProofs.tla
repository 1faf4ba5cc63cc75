-------------------------- MODULE AssessmentProofs --------------------------
(***************************************************************************)
(* Theorems about the rules: for any weights, threshold, threat feed and   *)
(* geography, and any evidence.  What holds only for some configurations   *)
(* says so in its assumptions.                                             *)
(***************************************************************************)
EXTENDS Assessment, TLAPS

---------------------------------------------------------------------------
(* The operators.                                                          *)

\* A score is an integer before it is clipped, and 0..100 afterwards.
LEMMA RawScoreType ==
  ASSUME NEW rs
  PROVE  RawScore(rs) \in Int
<1>1. \A r \in RiskReasons : Points(r, rs) \in Int
  BY WeightAssumption DEF Points
<1> QED
  BY <1>1 DEF RawScore, RiskReasons

LEMMA ScoreType ==
  ASSUME NEW rs
  PROVE  score(rs) \in RiskScores
BY RawScoreType DEF score, Clip, RiskScores

LEMMA LevelType ==
  ASSUME NEW n
  PROVE  level_for(n) \in Levels
BY DEF level_for, Levels

\* detect() tags a session with the label of a rule if the rule finds one of
\* its commands, and for no other reason.
LEMMA RuleBehaviours ==
  ASSUME NEW e, NEW n, NEW m, NEW b \in RuleLabels
  PROVE  b \in behaviors(e, n, m) <=> b \in UNION e.commands
<1>1. b \notin {"common_credential_use", "brute_force", "repeat_offender",
                "known_malicious_source", "post_auth_activity"}
  BY DEF RuleLabels, RuleTechnique
<1> HIDE DEF RuleLabels
<1> QED
  BY <1>1 DEF behaviors

\* detect() tags a session for its attempts on the two conditions that score()
\* charges for.
LEMMA RepetitionBehaviours ==
  ASSUME NEW e, NEW n, NEW m
  PROVE  /\ "brute_force" \in behaviors(e, n, m)
              <=> total_attempts(e, n) >= RepeatedThreshold
         /\ "repeat_offender" \in behaviors(e, n, m) <=> n > 0
<1>1. "brute_force" \notin RuleLabels /\ "repeat_offender" \notin RuleLabels
  BY DEF RuleLabels, RuleTechnique
<1> HIDE DEF RuleLabels
<1>2. \A b \in {"brute_force", "repeat_offender"} :
        b \in behaviors(e, n, m) <=>
          \/ b = "brute_force" /\ total_attempts(e, n) >= RepeatedThreshold
          \/ b = "repeat_offender" /\ n > 0
  BY <1>1 DEF behaviors
<1> QED
  BY <1>2

\* The rule table only names techniques of the catalogue.
LEMMA RuleTechniqueType ==
  ASSUME NEW b \in RuleLabels
  PROVE  RuleTechnique[b] \in CATALOGUE
BY DEF RuleLabels, RuleTechnique, CATALOGUE

\* A behaviour that detect() can add stands for techniques of the catalogue.
LEMMA BehaviourTechniques ==
  ASSUME NEW e, NEW n, NEW m, NEW b \in behaviors(e, n, m)
  PROVE  TechniquesOf(b) \subseteq CATALOGUE
<1>1. CASE b \in RuleLabels
  <2>1. RuleTechnique[b] \in CATALOGUE
    BY <1>1, RuleTechniqueType
  <2>2. b \notin {"common_credential_use", "brute_force", "repeat_offender",
                  "known_malicious_source", "post_auth_activity"}
    BY <1>1 DEF RuleLabels, RuleTechnique
  <2> HIDE DEF RuleLabels, CATALOGUE, RuleTechnique
  <2>3. TechniquesOf(b) = {RuleTechnique[b]}
    BY <1>1, <2>2 DEF TechniquesOf
  <2> QED
    BY <2>1, <2>3
<1>2. CASE b \notin RuleLabels
  <2>1. b \in {"common_credential_use", "brute_force", "repeat_offender",
               "known_malicious_source", "post_auth_activity"}
    BY <1>2 DEF behaviors
  <2> QED
    BY <1>2, <2>1 DEF TechniquesOf, CATALOGUE
<1> QED
  BY <1>1, <1>2

\* mitre.resolve finds every technique that a session can be given.
LEMMA NothingUnresolved ==
  ASSUME NEW e, NEW n, NEW m
  PROVE  resolve(techniques(behaviors(e, n, m))) = techniques(behaviors(e, n, m))
BY BehaviourTechniques DEF techniques, resolve

---------------------------------------------------------------------------
(* The order of scores.                                                    *)

NonNegativeWeights == \A r \in RiskReasons : Weight[r] >= 0

\* Whoever has all the reasons of another scores no less.
LEMMA MoreReasons ==
  ASSUME NonNegativeWeights, NEW rs, NEW qs, rs \subseteq qs
  PROVE  score(rs) <= score(qs)
<1>1. \A r \in RiskReasons : /\ Points(r, rs) \in Int /\ Points(r, qs) \in Int
                             /\ Points(r, rs) <= Points(r, qs)
  <2> SUFFICES ASSUME NEW r \in RiskReasons
               PROVE  /\ Points(r, rs) \in Int /\ Points(r, qs) \in Int
                      /\ Points(r, rs) <= Points(r, qs)
    OBVIOUS
  <2>1. Weight[r] \in Int /\ Weight[r] >= 0
    BY WeightAssumption DEF NonNegativeWeights
  <2> QED
    BY <2>1 DEF Points
<1>2. RawScore(rs) <= RawScore(qs)
  BY <1>1 DEF RawScore, RiskReasons
<1> QED
  BY <1>2, RawScoreType DEF score, Clip

\* More evidence about an address gives every reason that less evidence gave.
LEMMA MoreEvidence ==
  ASSUME NEW e \in Evidence, NEW f \in Evidence, NEW n \in Nat, NEW p \in Nat,
         NEW m, NEW g,
         e.auth_attempts <= f.auth_attempts, e.commands \subseteq f.commands,
         common_username(e) => common_username(f), n <= p
  PROVE  reasons(e, n, m, g, behaviors(e, n, m)) \subseteq reasons(f, p, m, g, behaviors(f, p, m))
<1> DEFINE bs == behaviors(e, n, m)
           cs == behaviors(f, p, m)
<1>1. \A b \in RuleLabels : b \in bs => b \in cs
  BY RuleBehaviours
<1>2. repeated_attempts(e, n) => repeated_attempts(f, p)
  <2>1. e.auth_attempts \in Nat /\ f.auth_attempts \in Nat
    BY DEF Evidence
  <2>2. total_attempts(e, n) <= total_attempts(f, p)
    BY <2>1 DEF total_attempts
  <2>3. total_attempts(e, n) \in Int /\ total_attempts(f, p) \in Int
    BY <2>1 DEF total_attempts
  <2> QED
    BY <2>2, <2>3, ThresholdAssumption DEF repeated_attempts
<1>3. {"tool_transfer", "cryptomining", "ssh_key_persistence", "cron_persistence",
       "system_discovery", "user_discovery", "account_discovery", "remote_discovery"}
        \subseteq RuleLabels
  BY DEF RuleLabels, RuleTechnique
<1> HIDE DEF bs, cs
<1>4. ASSUME NEW r \in RiskReasons, fires(r, e, n, m, g, bs)
      PROVE  fires(r, f, p, m, g, cs)
  <2>1. CASE r = "repeated_attempts"
    BY <1>2, <1>4, <2>1 DEF fires
  <2>2. CASE r = "common_brute_force_username"
    BY <1>4, <2>2 DEF fires
  <2>3. CASE r = "known_malicious_ip"
    BY <1>4, <2>3 DEF fires
  <2>4. CASE r = "foreign_asn"
    BY <1>4, <2>4 DEF fires
  <2>5. CASE r = "malware_download"
    BY <1>1, <1>3, <1>4, <2>5 DEF fires
  <2>6. CASE r = "persistence_attempt"
    BY <1>1, <1>3, <1>4, <2>6 DEF fires
  <2>7. CASE r = "reconnaissance"
    BY <1>1, <1>3, <1>4, <2>7 DEF fires
  <2> QED
    BY <2>1, <2>2, <2>3, <2>4, <2>5, <2>6, <2>7 DEF RiskReasons
<1>5. reasons(e, n, m, g, bs) \subseteq reasons(f, p, m, g, cs)
  BY <1>4 DEF reasons
<1> QED
  BY <1>5 DEF bs, cs

---------------------------------------------------------------------------
(* The specification.                                                      *)

InputInv == /\ ip \in IPs
            /\ evidence \in Evidence
            /\ prior \in 0..MaxPrior

LEMMA InputInit == Init => InputInv
BY BoundsAssumption DEF Init, InputInv, Evidence, Usernames

\* What one step does to the evidence.
LEMMA StepGrows ==
  ASSUME InputInv, [Next]_vars
  PROVE  /\ InputInv'
         /\ ip' = ip /\ prior <= prior'
         /\ evidence.auth_attempts <= evidence'.auth_attempts
         /\ evidence.commands \subseteq evidence'.commands
<1> USE DEF InputInv
<1>1. ASSUME NEW u \in Usernames \ {"absent"}, CheckAuth(u)
      PROVE  /\ InputInv'
             /\ ip' = ip /\ prior <= prior'
             /\ evidence.auth_attempts <= evidence'.auth_attempts
             /\ evidence.commands \subseteq evidence'.commands
  <2>1. evidence' = [username |-> u, auth_attempts |-> evidence.auth_attempts + 1,
                     commands |-> evidence.commands]
    BY <1>1 DEF CheckAuth, Evidence
  <2> QED
    BY <1>1, <2>1, BoundsAssumption DEF CheckAuth, Evidence
<1>2. ASSUME NEW l \in OneRule, AppendCommand(l)
      PROVE  /\ InputInv'
             /\ ip' = ip /\ prior <= prior'
             /\ evidence.auth_attempts <= evidence'.auth_attempts
             /\ evidence.commands \subseteq evidence'.commands
  <2>1. evidence' = [username |-> evidence.username, auth_attempts |-> evidence.auth_attempts,
                     commands |-> evidence.commands \cup {l}]
    BY <1>2 DEF AppendCommand, Evidence
  <2>2. l \in SUBSET RuleLabels
    BY DEF OneRule
  <2> HIDE DEF RuleLabels
  <2> QED
    BY <1>2, <2>1, <2>2, BoundsAssumption DEF AppendCommand, Evidence
<1>3. CASE EarlierSession
  BY <1>3, BoundsAssumption DEF EarlierSession, Evidence
<1>4. CASE UNCHANGED vars
  BY <1>4, BoundsAssumption DEF vars, Evidence
<1> QED
  BY <1>1, <1>2, <1>3, <1>4 DEF Next

LEMMA InputCorrect == Spec => []InputInv
BY InputInit, StepGrows, PTL DEF Spec

\* The rules give every session a score of 0..100 and one of three levels,
\* whatever weights and bands are configured.
THEOREM TypeCorrect == Spec => []TypeOK
<1>1. InputInv => TypeOK
  BY ScoreType, LevelType DEF InputInv, TypeOK, assessment, Assess
<1> QED
  BY <1>1, InputCorrect, PTL

---------------------------------------------------------------------------
(* What is written down twice.                                             *)

\* The bands of core/intel/config.py that services/__init__.py repeats.
DefaultBands == LowMax = 30 /\ MediumMax = 70

\* With the default bands, and points for repetition that are not switched off,
\* detector, engine, catalogue and dashboard judge every session alike.
THEOREM TwoPlacesAgree ==
  ASSUME DefaultBands, Weight["repeated_attempts"] # 0
  PROVE  Spec => []RulesAgree
<1>1. ASSUME InputInv
      PROVE  RulesAgree
  <2> DEFINE m == is_malicious(ip)
             g == enrich(ip, TRUE)
             bs == behaviors(evidence, prior, m)
             rs == reasons(evidence, prior, m, g, bs)
  <2>1. /\ assessment.behaviors = bs /\ assessment.techniques = techniques(bs)
        /\ assessment.reasons = rs /\ assessment.score = score(rs)
        /\ assessment.level = level_for(score(rs))
    BY DEF assessment, Assess
  <2>2. "repeated_attempts" \in rs <=> repeated_attempts(evidence, prior)
    BY DEF reasons, fires, RiskReasons
  <2>3. {"brute_force", "repeat_offender"} \cap bs # {} <=> repeated_attempts(evidence, prior)
    BY RepetitionBehaviours DEF repeated_attempts
  <2>4. resolve(techniques(bs)) = techniques(bs)
    BY NothingUnresolved
  <2> HIDE DEF bs, rs
  <2>5. severity_for(score(rs)) = level_for(score(rs))
    <3>1. score(rs) \in Int
      BY ScoreType DEF RiskScores
    <3> QED
      BY <3>1, DefaultBands DEF DefaultBands, severity_for, level_for
  <2> QED
    BY <2>1, <2>2, <2>3, <2>4, <2>5 DEF RulesAgree
<1> QED
  BY <1>1, InputCorrect, PTL

\* If no reason takes points away, no attempt, command or earlier session
\* lowers the score, unless a common username is overwritten.
THEOREM ScoreGrows ==
  ASSUME NonNegativeWeights
  PROVE  Spec => EvidenceNeverLowersScore
<1>1. ASSUME InputInv, [Next]_vars,
             evidence.username = "common" => evidence'.username = "common"
      PROVE  assessment.score <= assessment'.score
  <2> DEFINE m == is_malicious(ip)
             g == enrich(ip, TRUE)
             rs == reasons(evidence, prior, m, g, behaviors(evidence, prior, m))
             qs == reasons(evidence', prior', m, g, behaviors(evidence', prior', m))
  <2>1. /\ InputInv' /\ ip' = ip /\ prior <= prior'
        /\ evidence.auth_attempts <= evidence'.auth_attempts
        /\ evidence.commands \subseteq evidence'.commands
    BY <1>1, StepGrows
  <2>2. rs \subseteq qs
    <3>1. /\ evidence \in Evidence /\ evidence' \in Evidence
          /\ prior \in Nat /\ prior' \in Nat
      BY <1>1, <2>1, BoundsAssumption DEF InputInv
    <3>2. common_username(evidence) => common_username(evidence')
      BY <1>1 DEF common_username
    <3> HIDE DEF m, g
    <3> QED
      BY ONLY <2>1, <3>1, <3>2, MoreEvidence
  <2>3. assessment.score = score(rs)
    BY DEF assessment, Assess
  <2>4. assessment'.score = score(qs)
    BY <2>1 DEF assessment, Assess
  <2> HIDE DEF rs, qs
  <2> QED
    BY <2>2, <2>3, <2>4, MoreReasons
<1>2. InputInv /\ [Next]_vars =>
        [(evidence.username = "common" => evidence'.username = "common")
           => assessment.score <= assessment'.score]_vars
  BY <1>1
<1> QED
  BY <1>2, InputCorrect, PTL DEF Spec, EvidenceNeverLowersScore
=============================================================================
