---------------------------- MODULE VerifierGate ----------------------------
(***************************************************************************)
(* The verifier gate of a run: what it has seen of code edits and of       *)
(* build and test commands, what status it reports, and which nudge it has *)
(* for a run that wants to finish.  A state is the record `Inner` of the   *)
(* code, and the operators map one state to the next.                      *)
(*                                                                         *)
(* Left out: masked_command, ci_commands and observed_commands, which only *)
(* word a message or feed a judge's prompt, and how a command line is      *)
(* classified: a command comes with its verdict, its tier and whether it   *)
(* matches the configured project gate.                                    *)
(***************************************************************************)
EXTENDS Naturals

CONSTANTS
  MAX_TIER_ESCALATIONS,
  EditBound     \* bound: where the count of edits since a check saturates

ASSUME VerifierAssumption ==
  MAX_TIER_ESCALATIONS \in Nat \ {0} /\ EditBound \in Nat \ {0}

GateMode == {"Off", "Advisory", "Blocking"}

\* A verification command as the gate classifies it.  `trusted` is false for
\* a command that masks its exit status and for a script written in this run;
\* `gate` is true for one with the signature of the configured project gate.
Command == [failed : BOOLEAN, trusted : BOOLEAN,
            tier : {"Fast", "Slow", "None"}, gate : BOOLEAN]

Inner == [edited_code : BOOLEAN, ran_verification : BOOLEAN,
          verification_failed : BOOLEAN, fired : BOOLEAN,
          ran_fast : BOOLEAN, ran_slow : BOOLEAN, ran_project_gate : BOOLEAN,
          edits_since_verify : 0..EditBound,
          escalations : 0..MAX_TIER_ESCALATIONS]

InnerDefault ==
  [edited_code |-> FALSE, ran_verification |-> FALSE,
   verification_failed |-> FALSE, fired |-> FALSE, ran_fast |-> FALSE,
   ran_slow |-> FALSE, ran_project_gate |-> FALSE,
   edits_since_verify |-> 0, escalations |-> 0]

escalation_cap(mode) ==
  CASE mode = "Off"      -> 0
    [] mode = "Advisory" -> 1
    [] mode = "Blocking" -> MAX_TIER_ESCALATIONS

is_fast_green_only(v) ==
  v.ran_fast /\ ~v.ran_slow /\ ~v.verification_failed

record_edit(v) ==
  [v EXCEPT !.edited_code = TRUE,
            !.edits_since_verify = IF @ = EditBound THEN @ ELSE @ + 1]

\* A green that proves nothing is not recorded; a red always is.
record_command(v, c) ==
  IF ~c.trusted /\ ~c.failed THEN v
  ELSE [v EXCEPT !.ran_verification = TRUE,
                 !.verification_failed = c.failed,
                 !.edits_since_verify = 0,
                 !.ran_project_gate = @ \/ (~c.failed /\ c.gate),
                 !.ran_fast = @ \/ (~c.failed /\ c.tier = "Fast"),
                 !.ran_slow = @ \/ (~c.failed /\ c.tier = "Slow")]

\* What the critic and the goal judge are told; project_gate says that a
\* verification command is configured.
status(v, project_gate, mode) ==
  IF ~v.edited_code THEN "NoCodeEdited"
  ELSE IF v.ran_verification /\ v.verification_failed THEN "VerifiedRed"
  ELSE IF \/ ~v.ran_verification
          \/ mode # "Off" /\ v.edits_since_verify > 0 THEN "Unverified"
  ELSE IF \/ project_gate /\ ~v.ran_project_gate
          \/ mode # "Off" /\ is_fast_green_only(v) THEN "FastGreenOnly"
  ELSE "VerifiedGreen"

\* The two nudges of check_before_finalize, which have separate budgets.
legacy_nudge_due(v) ==
  /\ v.edited_code /\ ~v.fired
  /\ v.verification_failed \/ ~v.ran_verification

\* What the one-shot nudge says: a check is red, or none was run.
legacy_nudge(v) == IF v.verification_failed THEN "red" ELSE "unrun"

escalation_due(v, mode) ==
  /\ v.edited_code /\ ~legacy_nudge_due(v)
  /\ is_fast_green_only(v)
  /\ v.escalations < escalation_cap(mode)

\* Mutant: an escalation spends the one-shot nudge as well.
check_before_finalize_one_budget(v, mode) ==
  IF legacy_nudge_due(v) THEN [v EXCEPT !.fired = TRUE]
  ELSE IF escalation_due(v, mode)
       THEN [v EXCEPT !.escalations = @ + 1, !.fired = TRUE]
  ELSE v

check_before_finalize(v, mode) ==
  IF legacy_nudge_due(v) THEN [v EXCEPT !.fired = TRUE]
  ELSE IF escalation_due(v, mode) THEN [v EXCEPT !.escalations = @ + 1]
  ELSE v

=============================================================================
