------------------------ MODULE MCFinalizationGates ------------------------
(* Configurations of the finalization gates for TLC.  Each arms the gates   *)
(* whose interplay it is about, with every other optional gate off, so that *)
(* the gates combine within a configuration and the configurations add up.  *)
EXTENDS FinalizationGates

bare == [hook |-> FALSE, coordinator |-> FALSE, verifier |-> FALSE,
         project_gate |-> FALSE, critic |-> FALSE, baseline |-> TRUE,
         goal |-> FALSE, issue_db |-> FALSE, session |-> FALSE,
         code_review_mode |-> "Off", claim_gate_mode |-> "Off",
         source_gate_mode |-> "Off", completeness_gate_mode |-> "Off",
         open_issues_gate_mode |-> "Off", verification_tiers_mode |-> "Off"]

OneShotConfigs ==
  {[bare EXCEPT !.critic = TRUE, !.goal = g, !.code_review_mode = m,
                !.coordinator = ~g]
     : g \in BOOLEAN, m \in {"Off", "Advisory"}}

BlockingConfigs ==
  {[bare EXCEPT !.critic = TRUE, !.hook = TRUE, !.code_review_mode = "Blocking",
                !.baseline = b] : b \in BOOLEAN}

VerifierConfigs ==
  {[bare EXCEPT !.verifier = TRUE, !.verification_tiers_mode = m]
     : m \in GateMode}

AnswerConfigs ==
  {[bare EXCEPT !.claim_gate_mode = m, !.source_gate_mode = m,
                !.completeness_gate_mode = m] : m \in {"Advisory", "Blocking"}}

TrackingConfigs ==
  {[bare EXCEPT !.issue_db = TRUE, !.session = TRUE, !.goal = TRUE,
                !.open_issues_gate_mode = m] : m \in {"Advisory", "Blocking"}}

AllConfigs == OneShotConfigs \cup BlockingConfigs \cup VerifierConfigs
              \cup AnswerConfigs \cup TrackingConfigs

ProjectGateConfigs ==
  {[bare EXCEPT !.verifier = TRUE, !.project_gate = TRUE,
                !.verification_tiers_mode = "Advisory"]}
=============================================================================
