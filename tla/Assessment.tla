----------------------------- MODULE Assessment -----------------------------
(***************************************************************************)
(* How the assessment of one source evolves while evidence about it comes  *)
(* in: authentication attempts and commands of the running session         *)
(* (honeypot/ssh_server.py and the emulated shell fill the AttackRecord)   *)
(* and earlier sessions found in the database.  Every state is an input of *)
(* Intel!Assess; the properties compare the two places that judge the same *)
(* evidence (detector and risk engine, pipeline and dashboard).            *)
(***************************************************************************)
EXTENDS Intel, FiniteSetsExt

CONSTANTS IPs, MaxAttempts, MaxPrior, MaxCommands

ASSUME BoundsAssumption == MaxPrior \in Nat

VARIABLES
  ip,        \* the source address
  evidence,  \* what the AttackRecord holds
  prior      \* what _count_prior_attempts returns

vars == <<ip, evidence, prior>>

Init ==
  /\ ip \in IPs
  /\ evidence = [username |-> "absent", auth_attempts |-> 0, commands |-> {}]
  /\ prior = 0

\* check_auth_password / check_auth_publickey: one more attempt, and the
\* most recent username replaces the one before.
CheckAuth(u) ==
  /\ evidence.auth_attempts < MaxAttempts
  /\ evidence' = [evidence EXCEPT !.auth_attempts = @ + 1, !.username = u]
  /\ UNCHANGED <<ip, prior>>

\* A shell or exec command found by the rules in `labels'.
AppendCommand(labels) ==
  /\ Cardinality(evidence.commands) < MaxCommands
  /\ evidence' = [evidence EXCEPT !.commands = @ \cup {labels}]
  /\ UNCHANGED <<ip, prior>>

\* One more session of the source is in the history window.
EarlierSession ==
  /\ prior < MaxPrior
  /\ prior' = prior + 1
  /\ UNCHANGED <<ip, evidence>>

OneRule == {{}} \cup {{l} : l \in RuleLabels}

Next ==
  \/ \E u \in Usernames \ {"absent"} : CheckAuth(u)
  \/ \E labels \in OneRule : AppendCommand(labels)
  \/ EarlierSession

Spec == Init /\ [][Next]_vars

---------------------------------------------------------------------------
assessment == Assess(evidence, prior, is_malicious(ip), enrich(ip, TRUE))

\* The dashboard's own banding of a score: severity_for in the services
\* package, with the bounds written into the code.
severity_for(n) == IF n > 70 THEN "high" ELSE IF n > 30 THEN "medium" ELSE "low"

\* The types; the score is clipped to what the columns and the gauge hold.
TypeOK ==
  /\ ip \in IPs
  /\ evidence \in Evidence
  /\ prior \in 0..MaxPrior
  /\ assessment.score \in RiskScores
  /\ assessment.level \in Levels

\* What is written down in two places agrees for every session.  The risk
\* engine charges for repeated attempts exactly when the detector, from the same
\* counts, tagged the session brute_force or repeat_offender.  mitre.resolve,
\* which drops ids it does not know, drops none that a detector can emit.  The
\* level stored by the pipeline (configurable bands) is the severity that the
\* backend derives from the same score (fixed bands).
RulesAgree ==
  /\ "repeated_attempts" \in assessment.reasons
       <=> {"brute_force", "repeat_offender"} \cap assessment.behaviors # {}
  /\ resolve(assessment.techniques) = assessment.techniques
  /\ severity_for(assessment.score) = assessment.level

\* More evidence never makes a session look safer, as long as a common
\* username is not overwritten by a later, uncommon one.
EvidenceNeverLowersScore ==
  [][ (evidence.username = "common" => evidence'.username = "common")
        => assessment.score <= assessment'.score ]_vars
=============================================================================
