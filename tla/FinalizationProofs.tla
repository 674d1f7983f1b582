------------------------- MODULE FinalizationProofs -------------------------
(***************************************************************************)
(* Proofs about FinalizationGates, for every budget, every set of          *)
(* configurations and every bound on the model's work.                     *)
(*                                                                         *)
(* FollowUpBudget is not inductive: it says nothing of how the follow-ups  *)
(* came about.  BudgetInv adds where they are accounted for (each was      *)
(* charged to one counter) and that each counter keeps within the cap its  *)
(* configuration gives it.                                                 *)
(***************************************************************************)
EXTENDS FinalizationGates, Descent, TLAPS

\* The follow-ups the counters account for.
Charged ==
  gates.resume_nudges + (IF inner.fired THEN 1 ELSE 0) + inner.escalations
  + gates.claim_nudges + gates.source_nudges
  + (IF one_shot THEN IF gates.critic_done THEN 1 ELSE 0
     ELSE gates.code_review_reacts)
  + gates.goal_reacts + gates.todo_nudges + gates.open_issues_nudges
  + gates.track_nudges + gates.completeness_nudges

Accounted == sent.gate <= Charged

VerifierCaps ==
  /\ inner.escalations <= escalation_cap(config.verification_tiers_mode)
  /\ ~config.verifier => ~inner.fired /\ inner.escalations = 0

GateCaps ==
  /\ gates.claim_nudges <= nudge_cap(config.claim_gate_mode)
  /\ gates.source_nudges <= nudge_cap(config.source_gate_mode)
  /\ gates.completeness_nudges <= nudge_cap(config.completeness_gate_mode)
  /\ gates.open_issues_nudges <= open_issues_cap
  /\ ~config.critic => ~gates.critic_done /\ gates.code_review_reacts = 0
  /\ ~config.goal => gates.goal_reacts = 0
  /\ ~config.session => gates.track_nudges = 0

BudgetInv == TypeOK /\ Accounted /\ VerifierCaps /\ GateCaps

\* The types of the records in TypeOK.
GatesType ==
  [critic_done : BOOLEAN, critic_attempts : 0..MAX_CRITIC_JUDGE_ATTEMPTS,
   code_review_reacts : 0..MAX_REVIEW_REACT,
   last_reviewed_fingerprint : Trees \cup {NoDiff},
   last_review_findings : BOOLEAN,
   goal_reacts : 0..MAX_GOAL_REACT, todo_nudges : 0..MAX_TODO_NUDGES,
   resume_nudges : 0..MAX_RESUME_NUDGE,
   completeness_nudges : 0..MAX_BLOCKING_NUDGES,
   claim_nudges : 0..MAX_BLOCKING_NUDGES,
   source_nudges : 0..MAX_BLOCKING_NUDGES,
   open_issues_nudges : 0..MAX_OPEN_ISSUES_NUDGES,
   track_nudges : 0..MAX_TRACK_NUDGES]

JudgeType ==
  [asked : Nat, verdicts : Nat,
   now : {"idle", "failed", "skipped", "ruled"},
   reviewed : SUBSET Trees, raised : Trees \cup {NoDiff}]

SentType ==
  [gate : Nat, hook : 0..MaxHooks, legacy : {"none", "red", "unrun"}]

WorkType ==
  [calls : BOOLEAN, edited : BOOLEAN, wrote_todos : BOOLEAN,
   failed_tail : BOOLEAN, tree : Trees, steps : 0..WorkBound]

USE VerifierAssumption, GatesAssumption

\* The caps are natural numbers and stay within the bounds of TypeOK.
LEMMA CapsAreBounds ==
  ASSUME NEW mode \in GateMode
  PROVE  /\ nudge_cap(mode) \in 0..MAX_BLOCKING_NUDGES
         /\ escalation_cap(mode) \in 0..MAX_TIER_ESCALATIONS
BY DEF GateMode, nudge_cap, escalation_cap

\* So is the cap of the open-issues gate.
LEMMA OpenIssuesCap ==
  ASSUME config \in Configs
  PROVE  open_issues_cap \in 0..MAX_OPEN_ISSUES_NUDGES
BY DEF open_issues_cap, Config, GateMode

\* What the verifier gate records never spends its nudges.
LEMMA RecordEditKeeps ==
  ASSUME NEW v \in Inner
  PROVE  /\ record_edit(v) \in Inner
         /\ record_edit(v).fired = v.fired
         /\ record_edit(v).escalations = v.escalations
         /\ record_edit(v).ran_verification = v.ran_verification
         /\ record_edit(v).verification_failed = v.verification_failed
<1> DEFINE n == IF v.edits_since_verify = EditBound THEN v.edits_since_verify
                ELSE v.edits_since_verify + 1
<1>1. n \in 0..EditBound
  BY DEF Inner
<1>2. record_edit(v) =
        [v EXCEPT !.edited_code = TRUE, !.edits_since_verify = n]
  BY DEF record_edit
<1> HIDE DEF n
<1>3. QED
  BY <1>1, <1>2 DEF Inner

\* Nor does a command, whatever its outcome.
LEMMA RecordCommandKeeps ==
  ASSUME NEW v \in Inner, NEW c \in Command
  PROVE  /\ record_command(v, c) \in Inner
         /\ record_command(v, c).fired = v.fired
         /\ record_command(v, c).escalations = v.escalations
         /\ record_command(v, c) = v \/ record_command(v, c).ran_verification
<1> DEFINE g == v.ran_project_gate \/ (~c.failed /\ c.gate)
           f == v.ran_fast \/ (~c.failed /\ c.tier = "Fast")
           w == v.ran_slow \/ (~c.failed /\ c.tier = "Slow")
<1>1. g \in BOOLEAN /\ f \in BOOLEAN /\ w \in BOOLEAN
  OBVIOUS
<1>2. CASE ~c.trusted /\ ~c.failed
  BY <1>2 DEF record_command
<1>3. CASE ~(~c.trusted /\ ~c.failed)
  <2>1. record_command(v, c) =
          [v EXCEPT !.ran_verification = TRUE,
                    !.verification_failed = c.failed,
                    !.edits_since_verify = 0, !.ran_project_gate = g,
                    !.ran_fast = f, !.ran_slow = w]
    BY <1>3 DEF record_command
  <2>2. c.failed \in BOOLEAN
    BY DEF Command
  <2> HIDE DEF g, f, w
  <2>3. QED
    <3> DEFINE n == record_command(v, c)
    <3>1. /\ n.ran_verification = TRUE /\ n.verification_failed = c.failed
          /\ n.edits_since_verify = 0 /\ n.ran_project_gate = g
          /\ n.ran_fast = f /\ n.ran_slow = w
          /\ n.edited_code = v.edited_code /\ n.fired = v.fired
          /\ n.escalations = v.escalations
      BY <2>1 DEF Inner
    <3>2. 0 \in 0..EditBound
      OBVIOUS
    <3>3. n \in Inner
      BY <1>1, <2>1, <2>2, <3>2 DEF Inner
    <3>4. QED
      BY <3>1, <3>3
<1>4. QED
  BY <1>2, <1>3

\* A check at finalization that speaks spends one of the two budgets.
LEMMA CheckSpends ==
  ASSUME NEW v \in Inner, NEW mode \in GateMode,
         check_before_finalize(v, mode) # v
  PROVE  LET n == check_before_finalize(v, mode)
         IN  /\ n \in Inner
             /\ \/ ~v.fired /\ n.fired /\ n.escalations = v.escalations
                \/ /\ n.fired = v.fired
                   /\ n.escalations = v.escalations + 1
                   /\ v.escalations < escalation_cap(mode)
<1>1. CASE legacy_nudge_due(v)
  <2>1. check_before_finalize(v, mode) = [v EXCEPT !.fired = TRUE]
    BY <1>1 DEF check_before_finalize
  <2>2. QED
    BY <1>1, <2>1 DEF legacy_nudge_due, Inner
<1>2. CASE ~legacy_nudge_due(v)
  <2>1. /\ escalation_due(v, mode)
        /\ check_before_finalize(v, mode) =
             [v EXCEPT !.escalations = v.escalations + 1]
    BY <1>2 DEF check_before_finalize
  <2>2. /\ v.escalations < escalation_cap(mode)
        /\ v.escalations \in 0..MAX_TIER_ESCALATIONS
    BY <2>1 DEF escalation_due, Inner
  <2>3. v.escalations + 1 \in 0..MAX_TIER_ESCALATIONS
    BY <2>2, CapsAreBounds
  <2>4. QED
    BY <2>1, <2>2, <2>3 DEF Inner
<1>3. QED
  BY <1>1, <1>2

\* A new run has spent nothing.
LEMMA InitBudget == Init => BudgetInv
<1> SUFFICES ASSUME Init PROVE BudgetInv
  OBVIOUS
<1>1. config \in Config
  BY DEF Init
<1>2. TypeOK
  BY <1>1 DEF Init, TypeOK, Inner, InnerDefault, GateStates, Ended
<1>3. Accounted
  BY DEF Init, Accounted, Charged, InnerDefault, GateStates
<1>4. VerifierCaps
  BY <1>1, CapsAreBounds
  DEF Init, VerifierCaps, InnerDefault, GateStates, Config
<1>5. GateCaps
  BY <1>1, CapsAreBounds, OpenIssuesCap
  DEF Init, GateCaps, InnerDefault, GateStates, Config
<1>6. QED
  BY <1>2, <1>3, <1>4, <1>5 DEF BudgetInv

Labels == {"working", "user", "hook", "defer", "resume", "verifier", "claim",
           "source", "judge", "goal", "todo", "issues", "track",
           "completeness"} \cup Ended

\* A gate that passes leaves the accounts alone.
LEMMA PassKeeps ==
  ASSUME BudgetInv, NEW next \in Labels, Passes(next)
  PROVE  BudgetInv'
<1>1. TypeOK'
  BY DEF BudgetInv, TypeOK, Passes, Labels
<1>2. Accounted' /\ VerifierCaps' /\ GateCaps'
  BY DEF BudgetInv, Passes, Accounted, Charged, VerifierCaps, GateCaps,
         one_shot, open_issues_cap
<1>3. QED
  BY <1>1, <1>2 DEF BudgetInv

\* The bound a gate's own test keeps its counter under.
CapOf(counter) ==
  CASE counter = "resume_nudges" -> MAX_RESUME_NUDGE
    [] counter = "claim_nudges" -> nudge_cap(config.claim_gate_mode)
    [] counter = "source_nudges" -> nudge_cap(config.source_gate_mode)
    [] counter = "completeness_nudges" ->
         nudge_cap(config.completeness_gate_mode)
    [] counter = "goal_reacts" -> IF config.goal THEN MAX_GOAL_REACT ELSE 0
    [] counter = "todo_nudges" -> MAX_TODO_NUDGES
    [] counter = "open_issues_nudges" -> open_issues_cap
    [] counter = "track_nudges" ->
         IF config.session THEN MAX_TRACK_NUDGES ELSE 0

Counters == {"resume_nudges", "claim_nudges", "source_nudges",
             "completeness_nudges", "goal_reacts", "todo_nudges",
             "open_issues_nudges", "track_nudges"}

\* Charging a counter below its cap keeps the types and the caps.
LEMMA ChargeKeeps ==
  ASSUME BudgetInv, NEW counter \in Counters,
         gates[counter] < CapOf(counter),
         gates' = [gates EXCEPT ![counter] = @ + 1],
         UNCHANGED <<config, inner>>
  PROVE  /\ gates' \in
              [critic_done : BOOLEAN,
               critic_attempts : 0..MAX_CRITIC_JUDGE_ATTEMPTS,
               code_review_reacts : 0..MAX_REVIEW_REACT,
               last_reviewed_fingerprint : Trees \cup {NoDiff},
               last_review_findings : BOOLEAN,
               goal_reacts : 0..MAX_GOAL_REACT,
               todo_nudges : 0..MAX_TODO_NUDGES,
               resume_nudges : 0..MAX_RESUME_NUDGE,
               completeness_nudges : 0..MAX_BLOCKING_NUDGES,
               claim_nudges : 0..MAX_BLOCKING_NUDGES,
               source_nudges : 0..MAX_BLOCKING_NUDGES,
               open_issues_nudges : 0..MAX_OPEN_ISSUES_NUDGES,
               track_nudges : 0..MAX_TRACK_NUDGES]
         /\ GateCaps'
         /\ Charged' = Charged + 1
<1>1. config \in Config
  BY DEF BudgetInv, TypeOK
<1>2. /\ nudge_cap(config.claim_gate_mode) \in 0..MAX_BLOCKING_NUDGES
      /\ nudge_cap(config.source_gate_mode) \in 0..MAX_BLOCKING_NUDGES
      /\ nudge_cap(config.completeness_gate_mode) \in 0..MAX_BLOCKING_NUDGES
      /\ open_issues_cap \in 0..MAX_OPEN_ISSUES_NUDGES
  BY <1>1, CapsAreBounds, OpenIssuesCap DEF Config, BudgetInv, TypeOK
<1>3. open_issues_cap' = open_issues_cap /\ one_shot' = one_shot
  BY DEF open_issues_cap, one_shot
<1>4. CASE counter = "resume_nudges"
  BY <1>1, <1>2, <1>3, <1>4
  DEF BudgetInv, TypeOK, GateCaps, CapOf, Charged, Inner
<1>5. CASE counter = "claim_nudges"
  BY <1>1, <1>2, <1>3, <1>5
  DEF BudgetInv, TypeOK, GateCaps, CapOf, Charged, Inner
<1>6. CASE counter = "source_nudges"
  BY <1>1, <1>2, <1>3, <1>6
  DEF BudgetInv, TypeOK, GateCaps, CapOf, Charged, Inner
<1>7. CASE counter = "completeness_nudges"
  BY <1>1, <1>2, <1>3, <1>7
  DEF BudgetInv, TypeOK, GateCaps, CapOf, Charged, Inner
<1>8. CASE counter = "goal_reacts"
  BY <1>1, <1>2, <1>3, <1>8
  DEF BudgetInv, TypeOK, GateCaps, CapOf, Charged, Inner
<1>9. CASE counter = "todo_nudges"
  BY <1>1, <1>2, <1>3, <1>9
  DEF BudgetInv, TypeOK, GateCaps, CapOf, Charged, Inner
<1>10. CASE counter = "open_issues_nudges"
  BY <1>1, <1>2, <1>3, <1>10
  DEF BudgetInv, TypeOK, GateCaps, CapOf, Charged, Inner
<1>11. CASE counter = "track_nudges"
  BY <1>1, <1>2, <1>3, <1>11
  DEF BudgetInv, TypeOK, GateCaps, CapOf, Charged, Inner
<1>12. QED
  BY <1>4, <1>5, <1>6, <1>7, <1>8, <1>9, <1>10, <1>11 DEF Counters

\* A follow-up is one more to account for.
LEMMA FollowUpSayingCounts ==
  ASSUME BudgetInv, NEW legacy \in {"none", "red", "unrun"},
         FollowUpSaying(legacy), Charged \in Nat,
         Charged' = Charged + 1
  PROVE  /\ Accounted'
         /\ config' = config
         /\ sent' \in SentType
         /\ pc' = "working"
         /\ work' \in [calls : BOOLEAN, edited : BOOLEAN,
                       wrote_todos : BOOLEAN, failed_tail : BOOLEAN,
                       tree : Trees, steps : 0..WorkBound]
<1>1. /\ sent' = [sent EXCEPT !.gate = IF @ > Budget THEN @ ELSE @ + 1,
                              !.legacy = legacy]
      /\ sent \in SentType /\ sent.gate \in Nat
  BY DEF FollowUpSaying, BudgetInv, TypeOK, SentType
<1>2. sent'.gate \in Nat /\ sent'.gate <= sent.gate + 1
  BY <1>1, SMT DEF SentType
<1>3. Accounted'
  BY <1>1, <1>2 DEF Accounted, BudgetInv
<1>4. sent' \in SentType
  BY <1>1, <1>2 DEF SentType
<1>5. work' \in [calls : BOOLEAN, edited : BOOLEAN, wrote_todos : BOOLEAN,
                failed_tail : BOOLEAN, tree : Trees, steps : 0..WorkBound]
  <2>1. work' = [work EXCEPT !.failed_tail = FALSE, !.steps = 0]
    BY DEF FollowUpSaying, Reopens
  <2>2. work \in [calls : BOOLEAN, edited : BOOLEAN, wrote_todos : BOOLEAN,
                 failed_tail : BOOLEAN, tree : Trees, steps : 0..WorkBound]
    BY DEF BudgetInv, TypeOK
  <2>3. 0 \in 0..WorkBound
    OBVIOUS
  <2>4. QED
    BY <2>1, <2>2, <2>3
<1>6. config' = config /\ pc' = "working"
  BY DEF FollowUpSaying, Reopens
<1>7. QED
  BY <1>3, <1>4, <1>5, <1>6

\* Most follow-ups leave the verifier's one-shot alone.
LEMMA FollowUpCounts ==
  ASSUME BudgetInv, FollowUp, Charged \in Nat, Charged' = Charged + 1
  PROVE  /\ Accounted'
         /\ config' = config
         /\ sent' \in SentType
         /\ pc' = "working"
         /\ work' \in [calls : BOOLEAN, edited : BOOLEAN,
                       wrote_todos : BOOLEAN, failed_tail : BOOLEAN,
                       tree : Trees, steps : 0..WorkBound]
<1>1. sent.legacy \in {"none", "red", "unrun"}
  BY DEF BudgetInv, TypeOK
<1>2. FollowUpSaying(sent.legacy)
  BY DEF FollowUp
<1>3. QED
  BY <1>1, <1>2, FollowUpSayingCounts

\* What is accounted for is a natural number.
LEMMA ChargedIsNat == BudgetInv => Charged \in Nat
BY DEF BudgetInv, TypeOK, Charged, Inner

\* The common step of the counted gates.
LEMMA GateKeeps ==
  ASSUME BudgetInv, NEW due \in BOOLEAN, NEW counter \in Counters,
         NEW next \in Labels, Gate(due, counter, next),
         due => gates[counter] < CapOf(counter)
  PROVE  BudgetInv'
<1>1. CASE ~due
  BY <1>1, PassKeeps DEF Gate
<1>2. CASE due
  <2>1. /\ FollowUp
        /\ gates' = [gates EXCEPT ![counter] = @ + 1]
        /\ UNCHANGED <<config, inner, judge>>
    BY <1>2 DEF Gate, FollowUp, FollowUpSaying, Reopens
  <2>2. Charged' = Charged + 1 /\ GateCaps'
    BY <1>2, <2>1, ChargeKeeps
  <2>3. TypeOK'
    BY <1>2, <2>1, <2>2, ChargeKeeps, FollowUpCounts, ChargedIsNat
    DEF BudgetInv, TypeOK, SentType
  <2>4. Accounted'
    BY <2>1, <2>2, FollowUpCounts, ChargedIsNat
  <2>5. VerifierCaps'
    BY <2>1 DEF BudgetInv, VerifierCaps
  <2>6. QED
    BY <2>2, <2>3, <2>4, <2>5 DEF BudgetInv
<1>3. QED
  BY <1>1, <1>2

\* The model's own steps charge nothing but the boundary nudge.
LEMMA ActsKeeps ==
  ASSUME BudgetInv, NEW w, Acts(w), inner' \in Inner,
         w \in [calls : BOOLEAN, edited : BOOLEAN, wrote_todos : BOOLEAN,
               failed_tail : BOOLEAN, tree : Trees, steps : 0..WorkBound],
         w.steps = work.steps,
         inner'.fired = inner.fired, inner'.escalations = inner.escalations
  PROVE  BudgetInv'
<1>1. PICK failed \in BOOLEAN :
        work' = [w EXCEPT !.calls = TRUE, !.failed_tail = failed,
                          !.steps = @ + 1]
  BY DEF Acts
<1>2. w.steps + 1 \in 0..WorkBound
  BY DEF Acts, BudgetInv, TypeOK
<1>3. work' \in [calls : BOOLEAN, edited : BOOLEAN, wrote_todos : BOOLEAN,
                failed_tail : BOOLEAN, tree : Trees, steps : 0..WorkBound]
  BY <1>1, <1>2
<1>4. UNCHANGED <<config, gates, pc, sent, judge>>
  BY DEF Acts
<1>5. TypeOK'
  BY <1>3, <1>4 DEF BudgetInv, TypeOK
<1>6. Accounted' /\ VerifierCaps' /\ GateCaps'
  BY <1>4 DEF BudgetInv, Accounted, Charged, VerifierCaps, GateCaps,
              one_shot, open_issues_cap
<1>7. QED
  BY <1>5, <1>6 DEF BudgetInv

\* The steps of a working model.
LEMMA WorkKeeps == BudgetInv /\ Work => BudgetInv'
<1> SUFFICES ASSUME BudgetInv, Work PROVE BudgetInv'
  OBVIOUS
<1> USE DEF BudgetInv
<1>0. /\ inner \in Inner
      /\ work \in [calls : BOOLEAN, edited : BOOLEAN, wrote_todos : BOOLEAN,
                   failed_tail : BOOLEAN, tree : Trees, steps : 0..WorkBound]
  BY DEF TypeOK
<1> HIDE DEF BudgetInv
<1>1. CASE EditsFile
  <2>1. PICK tree \in Trees :
          Acts([work EXCEPT !.edited = TRUE, !.tree = tree])
    BY <1>1 DEF EditsFile
  <2>2. /\ inner' \in Inner
        /\ inner'.fired = inner.fired
        /\ inner'.escalations = inner.escalations
    BY <1>0, <1>1, RecordEditKeeps DEF EditsFile
  <2>3. QED
    BY <1>0, <2>1, <2>2, ActsKeeps
<1>2. CASE RunsCheck
  <2>1. PICK c \in Command : inner' = record_command(inner, c)
    BY <1>2 DEF RunsCheck
  <2>2. /\ inner' \in Inner
        /\ inner'.fired = inner.fired
        /\ inner'.escalations = inner.escalations
    BY <1>0, <2>1, RecordCommandKeeps
  <2>3. QED
    BY <1>0, <1>2, <2>2, ActsKeeps DEF RunsCheck
<1>3. CASE WritesTodos
  <2>1. Acts([work EXCEPT !.wrote_todos = TRUE]) /\ inner' = inner
    BY <1>3 DEF WritesTodos
  <2>2. QED
    BY <1>0, <2>1, ActsKeeps
<1>4. CASE OtherCall
  <2>1. PICK tree \in Trees : Acts([work EXCEPT !.tree = tree])
    BY <1>4 DEF OtherCall
  <2>2. inner' = inner
    BY <1>4 DEF OtherCall
  <2>3. QED
    BY <1>0, <2>1, <2>2, ActsKeeps
<1>5. CASE BoundaryTracksWork
  <2>1. /\ gates' = [gates EXCEPT !["track_nudges"] = @ + 1]
        /\ UNCHANGED <<config, inner, pc, sent, judge>>
        /\ work' = [work EXCEPT !.failed_tail = FALSE]
    BY <1>5 DEF BoundaryTracksWork
  <2>2. gates["track_nudges"] < CapOf("track_nudges")
    BY <1>5 DEF BoundaryTracksWork, should_advise_untracked_work, CapOf
  <2>3. "track_nudges" \in Counters
    BY DEF Counters
  <2>4. Charged' = Charged + 1 /\ GateCaps'
    BY <2>1, <2>2, <2>3, ChargeKeeps
  <2>5. work' \in [calls : BOOLEAN, edited : BOOLEAN, wrote_todos : BOOLEAN,
                  failed_tail : BOOLEAN, tree : Trees, steps : 0..WorkBound]
    BY <1>0, <2>1
  <2>6. TypeOK'
    BY <2>1, <2>2, <2>3, <2>5, ChargeKeeps DEF BudgetInv, TypeOK
  <2>7. Accounted' /\ VerifierCaps'
    <3>1. Charged \in Nat /\ sent.gate \in Nat /\ sent.gate <= Charged
      BY ChargedIsNat DEF BudgetInv, TypeOK, Accounted
    <3>2. QED
      BY <2>1, <2>4, <3>1 DEF BudgetInv, Accounted, VerifierCaps
  <2>8. QED
    BY <2>4, <2>6, <2>7 DEF BudgetInv
<1>6. QED
  BY <1>1, <1>2, <1>3, <1>4, <1>5 DEF Work

\* A verifier nudge is charged to `fired` or to `escalations`.
LEMMA VerifierKeeps == BudgetInv /\ VerifierSpeaks => BudgetInv'
<1> SUFFICES ASSUME BudgetInv, VerifierSpeaks PROVE BudgetInv'
  OBVIOUS
<1> DEFINE mode == config.verification_tiers_mode
<1> DEFINE said == IF legacy_nudge_due(inner) THEN legacy_nudge(inner)
                   ELSE sent.legacy
<1>1. /\ config.verifier /\ UNCHANGED <<config, gates, judge>>
      /\ FollowUpSaying(said)
      /\ inner' = check_before_finalize(inner, mode) /\ inner' # inner
  BY DEF VerifierSpeaks, FollowUpSaying, Reopens
<1>0. said \in {"none", "red", "unrun"}
  BY DEF BudgetInv, TypeOK, legacy_nudge
<1>2. /\ inner \in Inner /\ config \in Config /\ mode \in GateMode
      /\ inner.escalations <= escalation_cap(mode)
      /\ escalation_cap(mode) \in 0..MAX_TIER_ESCALATIONS
  BY CapsAreBounds DEF BudgetInv, TypeOK, VerifierCaps, Config
<1>3. \/ /\ ~inner.fired /\ inner'.fired
         /\ inner'.escalations = inner.escalations
         /\ inner' \in Inner
      \/ /\ inner'.fired = inner.fired
         /\ inner'.escalations = inner.escalations + 1
         /\ inner.escalations < escalation_cap(mode)
         /\ inner' \in Inner
  BY <1>1, <1>2, CheckSpends
<1>4. Charged' = Charged + 1
  BY <1>1, <1>2, <1>3 DEF Charged, one_shot, BudgetInv, TypeOK, Inner
<1>5. Accounted' /\ TypeOK'
  <2> HIDE DEF said
  <2>1. Charged \in Nat
    BY ChargedIsNat
  <2> QED
    BY <1>0, <1>1, <1>3, <1>4, <2>1, FollowUpSayingCounts
    DEF BudgetInv, TypeOK, SentType
<1>6. VerifierCaps'
  BY <1>1, <1>2, <1>3 DEF VerifierCaps, Inner
<1>7. GateCaps'
  BY <1>1 DEF BudgetInv, GateCaps, open_issues_cap
<1>8. QED
  BY <1>5, <1>6, <1>7 DEF BudgetInv

-----------------------------------------------------------------------------
(* The judge.  JudgeInv ties what the judge said to what GateStates        *)
(* remembers of it, and carries JudgeNotLost from the judge's own step to  *)
(* the end of the poll.                                                    *)

AfterJudge == {"goal", "todo", "issues", "track", "completeness", "finalized"}

Judged ==
  config.critic /\ work.calls =>
    \/ judge.now \in {"failed", "ruled"}
    \/ /\ one_shot
       /\ judge.verdicts = 1 \/ judge.asked = MAX_CRITIC_JUDGE_ATTEMPTS
    \/ ~one_shot /\ gates.code_review_reacts = MAX_REVIEW_REACT
    \/ ~one_shot /\ judge.now = "skipped" /\ work.tree \in judge.reviewed

Memo ==
  /\ one_shot => /\ judge.verdicts = IF gates.critic_done THEN 1 ELSE 0
                 /\ judge.asked = gates.critic_attempts
  /\ one_shot /\ judge.raised # NoDiff => gates.critic_done
  /\ ~one_shot /\ judge.raised # NoDiff =>
       /\ gates.last_reviewed_fingerprint = judge.raised
       /\ gates.last_review_findings
  /\ gates.last_reviewed_fingerprint # NoDiff =>
       gates.last_reviewed_fingerprint \in judge.reviewed

JudgeInv == Memo /\ (pc \in AfterJudge => Judged)

\* Steps that leave the judge's fields alone.
LEMMA JudgeFrame ==
  ASSUME JudgeInv, UNCHANGED config,
         gates'.critic_done = gates.critic_done,
         gates'.critic_attempts = gates.critic_attempts,
         gates'.code_review_reacts = gates.code_review_reacts,
         gates'.last_reviewed_fingerprint = gates.last_reviewed_fingerprint,
         gates'.last_review_findings = gates.last_review_findings,
         judge'.verdicts = judge.verdicts, judge'.asked = judge.asked,
         judge'.raised = judge.raised, judge'.reviewed = judge.reviewed,
         pc' \in AfterJudge => pc \in AfterJudge /\ UNCHANGED <<work, judge>>
  PROVE  JudgeInv'
<1>1. one_shot' = one_shot
  BY DEF one_shot
<1>2. Memo'
  BY <1>1 DEF JudgeInv, Memo
<1>3. ASSUME pc' \in AfterJudge PROVE Judged'
  BY <1>1, <1>3 DEF JudgeInv, Judged
<1>4. QED
  BY <1>2, <1>3 DEF JudgeInv

\* Among them: a gate that passes.
LEMMA PassJudge ==
  ASSUME JudgeInv, NEW next, Passes(next),
         next \in AfterJudge => pc \in AfterJudge
  PROVE  JudgeInv'
BY JudgeFrame DEF Passes

\* And a counted gate.
LEMMA GateJudge ==
  ASSUME BudgetInv, JudgeInv, NEW due \in BOOLEAN, NEW counter \in Counters,
         NEW next, Gate(due, counter, next),
         next \in AfterJudge => pc \in AfterJudge
  PROVE  JudgeInv'
<1>1. CASE ~due
  BY <1>1, PassJudge DEF Gate
<1>2. CASE due
  <2>1. /\ pc' = "working" /\ UNCHANGED <<config, judge>>
        /\ gates' = [gates EXCEPT ![counter] = @ + 1]
    BY <1>2 DEF Gate, FollowUp, FollowUpSaying, Reopens
  <2>2. /\ gates'.critic_done = gates.critic_done
        /\ gates'.critic_attempts = gates.critic_attempts
        /\ gates'.code_review_reacts = gates.code_review_reacts
        /\ gates'.last_reviewed_fingerprint = gates.last_reviewed_fingerprint
        /\ gates'.last_review_findings = gates.last_review_findings
    BY <2>1 DEF Counters, BudgetInv, TypeOK
  <2>3. pc' \notin AfterJudge
    BY <2>1 DEF AfterJudge
  <2>4. QED
    BY <2>1, <2>2, <2>3, JudgeFrame
<1>3. QED
  BY <1>1, <1>2

FullInv == BudgetInv /\ JudgeInv

\* The goal gate, polled at two places.
LEMMA GoalKeeps ==
  ASSUME FullInv, NEW next \in Labels, GoalGate(next),
         next \in AfterJudge => pc \in AfterJudge
  PROVE  FullInv'
<1> DEFINE due(u) == config.goal /\ gates.goal_reacts < MAX_GOAL_REACT /\ u
<1>1. PICK unmet \in BOOLEAN : Gate(due(unmet), "goal_reacts", next)
  BY DEF GoalGate
<1>2. due(unmet) \in BOOLEAN /\ "goal_reacts" \in Counters
  BY DEF Counters, FullInv, BudgetInv, TypeOK, Config
<1>3. due(unmet) => gates["goal_reacts"] < CapOf("goal_reacts")
  BY DEF CapOf
<1> HIDE DEF due
<1>4. QED
  BY <1>1, <1>2, <1>3, GateKeeps, GateJudge DEF FullInv

\* The step of ResumeGate.
LEMMA ResumeGateKeeps == FullInv /\ ResumeGate => FullInv'
<1> SUFFICES ASSUME FullInv, ResumeGate PROVE FullInv'
  OBVIOUS
<1>1. /\ "resume_nudges" \in Counters /\ "verifier" \in Labels
      /\ "verifier" \in AfterJudge => pc \in AfterJudge
  BY DEF Counters, Labels, Ended, AfterJudge, ResumeGate
<1> DEFINE due == gates.resume_nudges < MAX_RESUME_NUDGE /\ work.failed_tail
<1>2. due \in BOOLEAN /\ Gate(due, "resume_nudges", "verifier")
  BY DEF ResumeGate
<1>3. due => gates["resume_nudges"] < CapOf("resume_nudges")
  BY DEF CapOf
<1> HIDE DEF due
<1>4. QED
  BY <1>1, <1>2, <1>3, GateKeeps, GateJudge DEF FullInv

\* The step of ClaimGate.
LEMMA ClaimGateKeeps == FullInv /\ ClaimGate => FullInv'
<1> SUFFICES ASSUME FullInv, ClaimGate PROVE FullInv'
  OBVIOUS
<1>1. /\ "claim_nudges" \in Counters /\ "source" \in Labels
      /\ "source" \in AfterJudge => pc \in AfterJudge
  BY DEF Counters, Labels, Ended, AfterJudge, ClaimGate
<1> DEFINE due(u) ==
      /\ gates.claim_nudges < nudge_cap(config.claim_gate_mode)
      /\ u
<1>2. PICK u \in BOOLEAN : Gate(due(u), "claim_nudges", "source")
  BY DEF ClaimGate
<1>3. due(u) \in BOOLEAN
  OBVIOUS
<1>4. due(u) => gates["claim_nudges"] < CapOf("claim_nudges")
  BY DEF CapOf
<1> HIDE DEF due
<1>5. QED
  BY <1>1, <1>2, <1>3, <1>4, GateKeeps, GateJudge DEF FullInv

\* The step of SourceGate.
LEMMA SourceGateKeeps == FullInv /\ SourceGate => FullInv'
<1> SUFFICES ASSUME FullInv, SourceGate PROVE FullInv'
  OBVIOUS
<1>1. /\ "source_nudges" \in Counters /\ "judge" \in Labels
      /\ "judge" \in AfterJudge => pc \in AfterJudge
  BY DEF Counters, Labels, Ended, AfterJudge, SourceGate
<1> DEFINE due(f, u) ==
      /\ gates.source_nudges < nudge_cap(config.source_gate_mode)
      /\ f /\ u
<1>2. PICK f, u \in BOOLEAN : Gate(due(f, u), "source_nudges", "judge")
  BY DEF SourceGate
<1>3. due(f, u) \in BOOLEAN
  OBVIOUS
<1>4. due(f, u) => gates["source_nudges"] < CapOf("source_nudges")
  BY DEF CapOf
<1> HIDE DEF due
<1>5. QED
  BY <1>1, <1>2, <1>3, <1>4, GateKeeps, GateJudge DEF FullInv

\* The step of TodoGate.
LEMMA TodoGateKeeps == FullInv /\ TodoGate => FullInv'
<1> SUFFICES ASSUME FullInv, TodoGate PROVE FullInv'
  OBVIOUS
<1>1. /\ "todo_nudges" \in Counters /\ "issues" \in Labels
      /\ "issues" \in AfterJudge => pc \in AfterJudge
  BY DEF Counters, Labels, Ended, AfterJudge, TodoGate
<1> DEFINE due(u) ==
      /\ gates.todo_nudges < MAX_TODO_NUDGES
      /\ work.edited \/ (gates.todo_nudges = 0 /\ work.wrote_todos)
      /\ u
<1>2. PICK u \in BOOLEAN : Gate(due(u), "todo_nudges", "issues")
  BY DEF TodoGate
<1>3. due(u) \in BOOLEAN
  BY DEF FullInv, BudgetInv, TypeOK, Config
<1>4. due(u) => gates["todo_nudges"] < CapOf("todo_nudges")
  BY DEF CapOf
<1> HIDE DEF due
<1>5. QED
  BY <1>1, <1>2, <1>3, <1>4, GateKeeps, GateJudge DEF FullInv

\* The step of OpenIssuesGate.
LEMMA OpenIssuesGateKeeps == FullInv /\ OpenIssuesGate => FullInv'
<1> SUFFICES ASSUME FullInv, OpenIssuesGate PROVE FullInv'
  OBVIOUS
<1>1. /\ "open_issues_nudges" \in Counters /\ "track" \in Labels
      /\ "track" \in AfterJudge => pc \in AfterJudge
  BY DEF Counters, Labels, Ended, AfterJudge, OpenIssuesGate
<1> DEFINE due(u) ==
      /\ config.issue_db /\ work.edited
      /\ gates.open_issues_nudges < open_issues_cap
      /\ u
<1>2. PICK u \in BOOLEAN : Gate(due(u), "open_issues_nudges", "track")
  BY DEF OpenIssuesGate
<1>3. due(u) \in BOOLEAN
  BY DEF FullInv, BudgetInv, TypeOK, Config
<1>4. due(u) => gates["open_issues_nudges"] < CapOf("open_issues_nudges")
  BY DEF CapOf
<1> HIDE DEF due
<1>5. QED
  BY <1>1, <1>2, <1>3, <1>4, GateKeeps, GateJudge DEF FullInv

\* The step of TrackGate.
LEMMA TrackGateKeeps == FullInv /\ TrackGate => FullInv'
<1> SUFFICES ASSUME FullInv, TrackGate PROVE FullInv'
  OBVIOUS
<1>1. /\ "track_nudges" \in Counters /\ "completeness" \in Labels
      /\ "completeness" \in AfterJudge => pc \in AfterJudge
  BY DEF Counters, Labels, Ended, AfterJudge, TrackGate
<1> DEFINE due(u) == should_advise_untracked_work(u)
<1>2. PICK u \in BOOLEAN : Gate(due(u), "track_nudges", "completeness")
  BY DEF TrackGate
<1>3. due(u) \in BOOLEAN
  BY DEF should_advise_untracked_work, FullInv, BudgetInv, TypeOK, Config
<1>4. due(u) => gates["track_nudges"] < CapOf("track_nudges")
  BY DEF CapOf, should_advise_untracked_work
<1> HIDE DEF due
<1>5. QED
  BY <1>1, <1>2, <1>3, <1>4, GateKeeps, GateJudge DEF FullInv

\* The step of CompletenessGate.
LEMMA CompletenessGateKeeps == FullInv /\ CompletenessGate => FullInv'
<1> SUFFICES ASSUME FullInv, CompletenessGate PROVE FullInv'
  OBVIOUS
<1>1. /\ "completeness_nudges" \in Counters /\ "finalized" \in Labels
      /\ "finalized" \in AfterJudge => pc \in AfterJudge
  BY DEF Counters, Labels, Ended, AfterJudge, CompletenessGate
<1> DEFINE due(u, v) ==
      /\ gates.completeness_nudges <
           nudge_cap(config.completeness_gate_mode)
      /\ work.edited /\ ~u /\ v
<1>2. PICK u, v \in BOOLEAN :
        Gate(due(u, v), "completeness_nudges", "finalized")
  BY DEF CompletenessGate
<1>3. due(u, v) \in BOOLEAN
  BY DEF FullInv, BudgetInv, TypeOK, Config
<1>4. due(u, v) => gates["completeness_nudges"] < CapOf("completeness_nudges")
  BY DEF CapOf
<1> HIDE DEF due
<1>5. QED
  BY <1>1, <1>2, <1>3, <1>4, GateKeeps, GateJudge DEF FullInv

\* The steps that are neither a counted gate nor the judge's.
LEMMA OthersKeep ==
  ASSUME FullInv,
         \/ Work \/ Concludes \/ NotAwaitingUser \/ AwaitingUserDefers
         \/ AwaitingUser \/ HookSpeaks \/ HookSilent \/ Defers
         \/ NothingToDefer \/ VerifierSpeaks \/ VerifierSilent \/ PollGoal
  PROVE  FullInv'
<1> USE DEF FullInv
<1>1. CASE Work
  <2>1. BudgetInv'
    BY <1>1, WorkKeeps
  <2>2. pc' = "working" /\ UNCHANGED <<config, judge>>
    <3>1. ASSUME NEW w, Acts(w) PROVE pc' = "working" /\ UNCHANGED <<config, judge>>
      BY <3>1 DEF Acts
    <3>2. ASSUME BoundaryTracksWork
          PROVE  pc' = "working" /\ UNCHANGED <<config, judge>>
      BY <3>2 DEF BoundaryTracksWork
    <3>3. (\E w : Acts(w)) \/ BoundaryTracksWork
      BY <1>1 DEF Work, EditsFile, RunsCheck, WritesTodos, OtherCall
    <3> QED
      BY <3>1, <3>2, <3>3
  <2>3. gates' = gates \/ gates' = [gates EXCEPT !.track_nudges = @ + 1]
    BY <1>1 DEF Work, EditsFile, RunsCheck, WritesTodos, OtherCall,
                BoundaryTracksWork, Acts
  <2>4. /\ gates'.critic_done = gates.critic_done
        /\ gates'.critic_attempts = gates.critic_attempts
        /\ gates'.code_review_reacts = gates.code_review_reacts
        /\ gates'.last_reviewed_fingerprint = gates.last_reviewed_fingerprint
        /\ gates'.last_review_findings = gates.last_review_findings
    BY <2>3 DEF BudgetInv, TypeOK
  <2>5. pc' \notin AfterJudge
    BY <2>2 DEF AfterJudge
  <2>6. JudgeInv'
    BY <2>2, <2>4, <2>5, JudgeFrame
  <2>7. QED
    BY <2>1, <2>6
<1>2. CASE Concludes
  <2>1. /\ pc' = "user" /\ judge' = [judge EXCEPT !.now = "idle"]
        /\ UNCHANGED <<config, inner, gates, work, sent>>
    BY <1>2 DEF Concludes
  <2>2. TypeOK'
    BY <2>1 DEF BudgetInv, TypeOK
  <2>3. Accounted' /\ VerifierCaps' /\ GateCaps'
    BY <2>1 DEF BudgetInv, Accounted, Charged, VerifierCaps, GateCaps,
                one_shot, open_issues_cap
  <2>4. /\ judge'.verdicts = judge.verdicts /\ judge'.asked = judge.asked
        /\ judge'.raised = judge.raised /\ judge'.reviewed = judge.reviewed
    BY <2>1 DEF BudgetInv, TypeOK
  <2>5. pc' \notin AfterJudge
    BY <2>1 DEF AfterJudge
  <2>6. JudgeInv'
    BY <2>1, <2>4, <2>5, JudgeFrame
  <2>7. QED
    BY <2>2, <2>3, <2>6 DEF BudgetInv
<1>3. CASE \/ NotAwaitingUser \/ AwaitingUserDefers \/ HookSilent \/ Defers
           \/ NothingToDefer \/ VerifierSilent
  <2>1. PICK next \in Labels : Passes(next) /\ next \notin AfterJudge
    BY <1>3 DEF NotAwaitingUser, AwaitingUserDefers, HookSilent, Defers,
                NothingToDefer, VerifierSilent, Labels, Ended, AfterJudge
  <2>2. QED
    BY <2>1, PassKeeps, PassJudge
<1>4. CASE AwaitingUser
  <2>1. "awaiting_user" \in Labels /\ "awaiting_user" \notin AfterJudge
    BY DEF Labels, Ended, AfterJudge
  <2>2. QED
    BY <1>4, <2>1, GoalKeeps DEF AwaitingUser
<1>5. CASE PollGoal
  <2>1. "todo" \in Labels /\ pc \in AfterJudge
    BY <1>5 DEF Labels, AfterJudge, PollGoal
  <2>2. QED
    BY <1>5, <2>1, GoalKeeps DEF PollGoal
<1>6. CASE HookSpeaks
  <2>1. /\ pc' = "working" /\ UNCHANGED <<config, inner, gates, judge>>
        /\ work' = [work EXCEPT !.failed_tail = FALSE, !.steps = 0]
        /\ sent' = [sent EXCEPT !.hook = @ + 1] /\ sent.hook < MaxHooks
    BY <1>6 DEF HookSpeaks, Reopens
  <2>2. sent' \in SentType /\ sent'.gate = sent.gate
    BY <2>1 DEF BudgetInv, TypeOK, SentType
  <2>3. work' \in [calls : BOOLEAN, edited : BOOLEAN, wrote_todos : BOOLEAN,
                  failed_tail : BOOLEAN, tree : Trees, steps : 0..WorkBound]
    <3>1. 0 \in 0..WorkBound
      OBVIOUS
    <3>2. work \in [calls : BOOLEAN, edited : BOOLEAN, wrote_todos : BOOLEAN,
                   failed_tail : BOOLEAN, tree : Trees, steps : 0..WorkBound]
      BY DEF BudgetInv, TypeOK
    <3>3. QED
      BY <2>1, <3>1, <3>2
  <2>4. TypeOK'
    BY <2>1, <2>2, <2>3 DEF BudgetInv, TypeOK
  <2>5. Accounted' /\ VerifierCaps' /\ GateCaps'
    BY <2>1, <2>2 DEF BudgetInv, Accounted, Charged, VerifierCaps, GateCaps,
                      one_shot, open_issues_cap
  <2>6. pc' \notin AfterJudge
    BY <2>1 DEF AfterJudge
  <2>7. JudgeInv'
    BY <2>1, <2>6, JudgeFrame
  <2>8. QED
    BY <2>4, <2>5, <2>7 DEF BudgetInv
<1>7. CASE VerifierSpeaks
  <2>1. pc' = "working" /\ UNCHANGED <<config, gates, judge>>
    BY <1>7 DEF VerifierSpeaks, FollowUp, FollowUpSaying, Reopens
  <2>2. pc' \notin AfterJudge
    BY <2>1 DEF AfterJudge
  <2>3. QED
    BY <1>7, <2>1, <2>2, VerifierKeeps, JudgeFrame
<1>8. QED
  BY <1>1, <1>2, <1>3, <1>4, <1>5, <1>6, <1>7

\* The judge is not asked: its one verdict or its budget is spent, or it
\* does not apply to this run.
LEMMA IdleKeeps == FullInv /\ JudgeIdle => FullInv'
<1> SUFFICES ASSUME FullInv, JudgeIdle PROVE FullInv'
  OBVIOUS
<1>1. ~may_fire /\ Passes("goal")
  BY DEF JudgeIdle
<1>2. BudgetInv'
  BY <1>1, PassKeeps DEF FullInv, Labels
<1>3. UNCHANGED <<config, inner, gates, work, sent, judge>> /\ pc' = "goal"
  BY <1>1 DEF Passes
<1>4. Memo'
  BY <1>3 DEF FullInv, JudgeInv, Memo, one_shot
<1>5. Judged
  <2> SUFFICES ASSUME config.critic, work.calls PROVE Judged
    BY DEF Judged
  <2>1. CASE one_shot
    <3>1. \/ gates.critic_done
          \/ ~(gates.critic_attempts < MAX_CRITIC_JUDGE_ATTEMPTS)
      BY <1>1, <2>1 DEF may_fire
    <3>2. gates.critic_attempts \in 0..MAX_CRITIC_JUDGE_ATTEMPTS
      BY DEF FullInv, BudgetInv, TypeOK
    <3>3. QED
      BY <2>1, <3>1, <3>2 DEF FullInv, JudgeInv, Memo, Judged
  <2>2. CASE ~one_shot
    <3>1. ~(gates.code_review_reacts < MAX_REVIEW_REACT)
      BY <1>1, <2>2 DEF may_fire
    <3>2. gates.code_review_reacts \in 0..MAX_REVIEW_REACT
      BY DEF FullInv, BudgetInv, TypeOK
    <3>3. QED
      BY <2>2, <3>1, <3>2 DEF Judged
  <2>3. QED
    BY <2>1, <2>2
<1>6. Judged'
  BY <1>3, <1>5 DEF Judged, one_shot
<1>7. QED
  BY <1>2, <1>4, <1>6 DEF FullInv, JudgeInv

\* The skip: the diff that is left is the one last reviewed.
LEMMA SkipKeeps == FullInv /\ JudgeSkips => FullInv'
<1> SUFFICES ASSUME FullInv, JudgeSkips PROVE FullInv'
  OBVIOUS
<1>1. /\ pc' = "goal" /\ judge' = [judge EXCEPT !.now = "skipped"]
      /\ UNCHANGED <<config, inner, gates, work, sent>>
  BY DEF JudgeSkips
<1>2. PICK fp \in Captured : skip(fp)
  BY DEF JudgeSkips
<1>3. ~one_shot /\ fp # NoDiff /\ fp = gates.last_reviewed_fingerprint
  BY <1>2 DEF skip, run_delta_to_review
<1>4. fp = work.tree
  BY <1>2, <1>3 DEF Captured
<1>5. work.tree \in judge.reviewed
  BY <1>3, <1>4 DEF FullInv, JudgeInv, Memo
<1>6. /\ judge'.verdicts = judge.verdicts /\ judge'.asked = judge.asked
      /\ judge'.raised = judge.raised /\ judge'.reviewed = judge.reviewed
      /\ judge'.now = "skipped"
  BY <1>1 DEF FullInv, BudgetInv, TypeOK
<1>7. TypeOK'
  BY <1>1 DEF FullInv, BudgetInv, TypeOK
<1>8. Accounted' /\ VerifierCaps' /\ GateCaps'
  BY <1>1 DEF FullInv, BudgetInv, Accounted, Charged, VerifierCaps, GateCaps,
              one_shot, open_issues_cap
<1>9. one_shot' = one_shot
  BY <1>1 DEF one_shot
<1>10. Memo' /\ Judged'
  BY <1>1, <1>3, <1>5, <1>6, <1>9 DEF FullInv, JudgeInv, Memo, Judged
<1>11. QED
  BY <1>7, <1>8, <1>10 DEF FullInv, BudgetInv, JudgeInv

\* A failed call counts as an attempt and nothing else.
LEMMA FailKeeps == FullInv /\ JudgeFails => FullInv'
<1> SUFFICES ASSUME FullInv, JudgeFails PROVE FullInv'
  OBVIOUS
<1>1. /\ pc' = "goal" /\ may_fire
      /\ gates' = IF one_shot THEN [gates EXCEPT !.critic_attempts = @ + 1]
                  ELSE gates
      /\ judge' = [judge EXCEPT !.now = "failed",
                                !.asked = IF one_shot THEN @ + 1 ELSE @]
      /\ UNCHANGED <<config, inner, work, sent>>
  BY DEF JudgeFails
<1>2. one_shot' = one_shot /\ open_issues_cap' = open_issues_cap
  BY <1>1 DEF one_shot, open_issues_cap
<1>3. /\ judge'.verdicts = judge.verdicts
      /\ judge'.asked = IF one_shot THEN judge.asked + 1 ELSE judge.asked
      /\ judge'.raised = judge.raised /\ judge'.reviewed = judge.reviewed
      /\ judge'.now = "failed" /\ judge'.asked \in Nat
  BY <1>1 DEF FullInv, BudgetInv, TypeOK
<1>4. one_shot => gates.critic_attempts + 1 \in 0..MAX_CRITIC_JUDGE_ATTEMPTS
  BY <1>1 DEF may_fire, FullInv, BudgetInv, TypeOK
<1>5. TypeOK'
  <2>1. gates \in GatesType /\ judge \in JudgeType
    BY DEF FullInv, BudgetInv, TypeOK, GatesType, JudgeType
  <2>2. gates' \in GatesType
    <3>1. CASE one_shot
      BY <1>1, <1>4, <2>1, <3>1 DEF GatesType
    <3>2. CASE ~one_shot
      BY <1>1, <2>1, <3>2
    <3>3. QED
      BY <3>1, <3>2
  <2>3. judge' \in JudgeType
    <3> DEFINE n == IF one_shot THEN judge.asked + 1 ELSE judge.asked
    <3>1. n \in Nat
      BY <2>1 DEF JudgeType
    <3>2. judge' = [judge EXCEPT !.now = "failed", !.asked = n]
      BY <1>1
    <3> HIDE DEF n
    <3>3. QED
      BY <2>1, <3>1, <3>2 DEF JudgeType
  <2>4. QED
    BY <1>1, <2>2, <2>3
    DEF FullInv, BudgetInv, TypeOK, GatesType, JudgeType
<1>6. /\ gates'.critic_done = gates.critic_done
      /\ gates'.critic_attempts = IF one_shot THEN gates.critic_attempts + 1
                                  ELSE gates.critic_attempts
      /\ gates'.code_review_reacts = gates.code_review_reacts
      /\ gates'.last_reviewed_fingerprint = gates.last_reviewed_fingerprint
      /\ gates'.last_review_findings = gates.last_review_findings
      /\ gates'.goal_reacts = gates.goal_reacts
      /\ gates'.todo_nudges = gates.todo_nudges
      /\ gates'.resume_nudges = gates.resume_nudges
      /\ gates'.completeness_nudges = gates.completeness_nudges
      /\ gates'.claim_nudges = gates.claim_nudges
      /\ gates'.source_nudges = gates.source_nudges
      /\ gates'.open_issues_nudges = gates.open_issues_nudges
      /\ gates'.track_nudges = gates.track_nudges
  BY <1>1 DEF FullInv, BudgetInv, TypeOK
<1>7. Accounted' /\ VerifierCaps' /\ GateCaps'
  BY <1>1, <1>2, <1>6
  DEF FullInv, BudgetInv, Accounted, Charged, VerifierCaps, GateCaps
<1>8. Memo' /\ Judged'
  BY <1>1, <1>2, <1>3, <1>6 DEF FullInv, JudgeInv, Memo, Judged
<1>9. QED
  BY <1>5, <1>7, <1>8 DEF FullInv, BudgetInv, JudgeInv

\* A verdict: in a one-shot run the first, otherwise a review of a diff that
\* was not the last one faulted.
LEMMA RuleKeeps == FullInv /\ JudgeRules => FullInv'
<1> SUFFICES ASSUME FullInv, JudgeRules PROVE FullInv'
  OBVIOUS
<1>1. PICK fp \in Captured, complete \in BOOLEAN, findings \in BOOLEAN :
        LET messages == ~complete \/ findings
            reviewed == run_delta_to_review(fp)
        IN  /\ ~skip(fp)
            /\ gates' = record_verdict(fp, messages, findings)
            /\ judge' = [judge EXCEPT
                  !.asked = IF one_shot THEN @ + 1 ELSE @,
                  !.verdicts = IF one_shot THEN @ + 1 ELSE @,
                  !.now = "ruled",
                  !.reviewed = IF reviewed THEN @ \cup {fp} ELSE @,
                  !.raised = IF reviewed /\ findings THEN fp ELSE NoDiff]
            /\ \/ messages /\ FollowUp /\ UNCHANGED inner
               \/ /\ ~messages /\ pc' = "goal"
                  /\ UNCHANGED <<config, inner, work, sent>>
  BY DEF JudgeRules
<1> DEFINE messages == ~complete \/ findings
           reviewed == run_delta_to_review(fp)
<1>2. /\ UNCHANGED <<config, inner>> /\ may_fire
      /\ one_shot' = one_shot /\ open_issues_cap' = open_issues_cap
  BY <1>1 DEF FollowUp, FollowUpSaying, Reopens, one_shot, open_issues_cap,
              JudgeRules
<1>3. /\ judge'.verdicts = IF one_shot THEN judge.verdicts + 1
                           ELSE judge.verdicts
      /\ judge'.asked = IF one_shot THEN judge.asked + 1 ELSE judge.asked
      /\ judge'.raised = IF reviewed /\ findings THEN fp ELSE NoDiff
      /\ judge'.reviewed = IF reviewed THEN judge.reviewed \cup {fp}
                           ELSE judge.reviewed
      /\ judge'.now = "ruled"
  BY <1>1 DEF FullInv, BudgetInv, TypeOK
<1>4. fp \in Trees \cup {NoDiff} /\ (reviewed => fp \in Trees)
  BY <1>1 DEF Captured, FullInv, BudgetInv, TypeOK, run_delta_to_review
<1>5. judge' \in JudgeType
  <2> DEFINE n == IF one_shot THEN judge.asked + 1 ELSE judge.asked
             v == IF one_shot THEN judge.verdicts + 1 ELSE judge.verdicts
             r == IF reviewed THEN judge.reviewed \cup {fp} ELSE judge.reviewed
             f == IF reviewed /\ findings THEN fp ELSE NoDiff
  <2>1. judge \in JudgeType
    BY DEF FullInv, BudgetInv, TypeOK, JudgeType
  <2>2. n \in Nat /\ v \in Nat
    BY <2>1 DEF JudgeType
  <2>3. r \in SUBSET Trees /\ f \in Trees \cup {NoDiff}
    BY <1>4, <2>1 DEF JudgeType
  <2>4. judge' = [judge EXCEPT !.asked = n, !.verdicts = v, !.now = "ruled",
                               !.reviewed = r, !.raised = f]
    BY <1>1
  <2> HIDE DEF n, v, r, f
  <2>5. QED
    BY <2>1, <2>2, <2>3, <2>4 DEF JudgeType
<1>6. /\ reviewed \in BOOLEAN
      /\ messages \in BOOLEAN
  BY DEF run_delta_to_review
<1>7. gates \in GatesType /\ inner \in Inner
  BY DEF FullInv, BudgetInv, TypeOK, GatesType
<1>8. /\ gates' \in GatesType
      /\ GateCaps'
      /\ messages => Charged' = Charged + 1
      /\ Charged' >= Charged
      /\ Memo'
  <2>1. CASE one_shot
    <3>1. gates' = [gates EXCEPT !.critic_attempts = @ + 1,
                                 !.critic_done = TRUE]
      BY <1>1, <2>1 DEF record_verdict
    <3>2. ~gates.critic_done /\ config.critic
      BY <1>2, <2>1 DEF may_fire
    <3>3. gates.critic_attempts + 1 \in 0..MAX_CRITIC_JUDGE_ATTEMPTS
      BY <1>2, <1>7, <2>1 DEF may_fire, GatesType
    <3>4. gates' \in GatesType
      BY <1>7, <3>1, <3>3 DEF GatesType
    <3>5. GateCaps'
      BY <1>2, <1>7, <3>1, <3>2 DEF FullInv, BudgetInv, GateCaps, GatesType
    <3>6. Charged' = Charged + 1
      BY <1>2, <1>7, <2>1, <3>1, <3>2 DEF Charged, GatesType, Inner
    <3>7. Memo'
      BY <1>2, <1>3, <1>7, <2>1, <3>1, <3>2
      DEF FullInv, JudgeInv, Memo, GatesType
    <3>8. QED
      BY <1>7, <3>4, <3>5, <3>6, <3>7, ChargedIsNat DEF FullInv
  <2>2. CASE ~one_shot
    <3> DEFINE l == IF reviewed THEN fp ELSE gates.last_reviewed_fingerprint
               k == IF messages THEN gates.code_review_reacts + 1
                    ELSE gates.code_review_reacts
    <3>1. gates' = [gates EXCEPT !.last_reviewed_fingerprint = l,
                                 !.last_review_findings = findings,
                                 !.code_review_reacts = k]
      BY <1>1, <2>2 DEF record_verdict
    <3>2. /\ k \in 0..MAX_REVIEW_REACT /\ config.critic
          /\ k = gates.code_review_reacts \/ k = gates.code_review_reacts + 1
          /\ messages => k = gates.code_review_reacts + 1
      BY <1>2, <1>7, <2>2 DEF may_fire, GatesType
    <3>3. l \in Trees \cup {NoDiff}
      BY <1>4, <1>7 DEF GatesType
    <3>4. reviewed => l = fp
      OBVIOUS
    <3>5. ~reviewed => l = gates.last_reviewed_fingerprint
      OBVIOUS
    <3> HIDE DEF l, k
    <3>6. gates' \in GatesType
      BY <1>7, <3>1, <3>2, <3>3 DEF GatesType
    <3>7. GateCaps'
      BY <1>2, <1>7, <3>1, <3>2 DEF FullInv, BudgetInv, GateCaps, GatesType
    <3>8. Charged' = Charged + (k - gates.code_review_reacts)
      BY <1>2, <1>7, <2>2, <3>1, <3>2 DEF Charged, GatesType, Inner
    <3>9. Memo'
      <4>1. /\ gates'.last_reviewed_fingerprint = l
            /\ gates'.last_review_findings = findings
        BY <1>7, <3>1 DEF GatesType
      <4> HIDE DEF reviewed
      <4>2. QED
        BY <1>2, <1>3, <2>2, <3>4, <3>5, <4>1 DEF FullInv, JudgeInv, Memo
    <3>10. QED
      BY <1>7, <3>2, <3>6, <3>7, <3>8, <3>9, ChargedIsNat
      DEF FullInv, GatesType
  <2>3. QED
    BY <2>1, <2>2
<1>9. VerifierCaps'
  BY <1>2 DEF FullInv, BudgetInv, VerifierCaps
<1>10. CASE messages
  <2>1. FollowUp
    BY <1>1, <1>10
  <2>2. Accounted' /\ TypeOK'
    BY <1>2, <1>5, <1>8, <1>10, <2>1, FollowUpCounts, ChargedIsNat
    DEF FullInv, BudgetInv, TypeOK, GatesType, SentType, JudgeType
  <2>3. pc' \notin AfterJudge
    BY <2>1 DEF FollowUp, FollowUpSaying, Reopens, AfterJudge
  <2>4. QED
    BY <1>8, <1>9, <2>2, <2>3 DEF FullInv, BudgetInv, JudgeInv
<1>11. CASE ~messages
  <2>1. pc' = "goal" /\ UNCHANGED <<config, inner, work, sent>>
    BY <1>1, <1>11
  <2>2. TypeOK'
    BY <1>5, <1>8, <2>1
    DEF FullInv, BudgetInv, TypeOK, GatesType, JudgeType
  <2>3. Accounted'
    <3>1. Charged \in Nat /\ sent.gate \in Nat /\ sent.gate <= Charged
      BY ChargedIsNat DEF FullInv, BudgetInv, TypeOK, Accounted
    <3>2. Charged' \in Nat
      BY <1>2, <1>7, <1>8 DEF Charged, GatesType, Inner
    <3>3. QED
      BY <1>8, <2>1, <3>1, <3>2 DEF Accounted
  <2>4. Judged'
    BY <1>3 DEF Judged
  <2>5. QED
    BY <1>8, <1>9, <2>2, <2>3, <2>4 DEF FullInv, BudgetInv, JudgeInv
<1>12. QED
  BY <1>10, <1>11

-----------------------------------------------------------------------------
(* The theorems.                                                           *)

\* A new run has asked no judge.
LEMMA InitFull == Init => FullInv
<1> SUFFICES ASSUME Init PROVE FullInv
  OBVIOUS
<1>1. Memo
  BY DEF Init, Memo, GateStates
<1>2. pc \notin AfterJudge
  BY DEF Init, AfterJudge
<1>3. QED
  BY <1>1, <1>2, InitBudget DEF FullInv, JudgeInv

\* Every step keeps the accounts and the judge's memory.
LEMMA NextFull == FullInv /\ [Next]_vars => FullInv'
<1> SUFFICES ASSUME FullInv, [Next]_vars PROVE FullInv'
  OBVIOUS
<1>1. CASE UNCHANGED vars
  <2>1. UNCHANGED <<config, inner, gates, work, pc, sent, judge>>
    BY <1>1 DEF vars
  <2>2. BudgetInv'
    <3>1. TypeOK'
      BY <2>1 DEF FullInv, BudgetInv, TypeOK
    <3>2. Accounted' /\ VerifierCaps' /\ GateCaps'
      BY <2>1 DEF FullInv, BudgetInv, Accounted, Charged, VerifierCaps,
                  GateCaps, one_shot, open_issues_cap
    <3>3. QED
      BY <3>1, <3>2 DEF BudgetInv
  <2>3. JudgeInv'
    BY <2>1, JudgeFrame DEF FullInv
  <2>4. QED
    BY <2>2, <2>3 DEF FullInv
<1>2. CASE Rests
  BY <1>1, <1>2 DEF Rests
<1>3. CASE ResumeGate \/ ClaimGate \/ SourceGate \/ TodoGate
           \/ OpenIssuesGate \/ TrackGate \/ CompletenessGate
  BY <1>3, ResumeGateKeeps, ClaimGateKeeps, SourceGateKeeps, TodoGateKeeps,
     OpenIssuesGateKeeps, TrackGateKeeps, CompletenessGateKeeps
<1>4. CASE JudgeIdle \/ JudgeSkips \/ JudgeFails \/ JudgeRules
  BY <1>4, IdleKeeps, SkipKeeps, FailKeeps, RuleKeeps
<1>5. CASE \/ Work \/ Concludes \/ NotAwaitingUser \/ AwaitingUserDefers
           \/ AwaitingUser \/ HookSpeaks \/ HookSilent \/ Defers
           \/ NothingToDefer \/ VerifierSpeaks \/ VerifierSilent \/ PollGoal
  BY <1>5, OthersKeep
<1>6. QED
  BY <1>1, <1>2, <1>3, <1>4, <1>5 DEF Next, Poll

\* FullInv is an invariant of the poll.
LEMMA FullInvariance == Spec => []FullInv
BY InitFull, NextFull, PTL DEF Spec

\* The counters of GateStates and of the verifier gate keep within the caps
\* that run.rs names, in every configuration.
THEOREM GatesTypeCorrect == Spec => []TypeOK
<1>1. FullInv => TypeOK
  BY DEF FullInv, BudgetInv
<1>2. QED
  BY <1>1, FullInvariance, PTL

\* poll_finalization_follow_up sends a run back at most Budget times: the
\* gates cannot trap the loop, whatever the caps and whichever are armed.
THEOREM FollowUpBudgetHolds == Spec => []FollowUpBudget
<1>1. FullInv => FollowUpBudget
  <2> SUFFICES ASSUME FullInv PROVE FollowUpBudget
    OBVIOUS
  <2>1. /\ gates \in GatesType /\ inner \in Inner /\ config \in Config
        /\ sent.gate \in Nat
    BY DEF FullInv, BudgetInv, TypeOK, GatesType
  <2>2. /\ nudge_cap(config.claim_gate_mode) \in Nat
        /\ nudge_cap(config.source_gate_mode) \in Nat
        /\ nudge_cap(config.completeness_gate_mode) \in Nat
        /\ escalation_cap(config.verification_tiers_mode) \in Nat
        /\ open_issues_cap \in Nat
    BY <2>1, CapsAreBounds, OpenIssuesCap
    DEF Config, FullInv, BudgetInv, TypeOK
  <2>3. Charged <= Budget
    BY <2>1, <2>2
    DEF Charged, Budget, FullInv, BudgetInv, VerifierCaps, GateCaps,
        GatesType, Inner
  <2>4. Budget \in Nat /\ Charged \in Nat /\ sent.gate <= Charged
    BY <2>1, <2>2, ChargedIsNat DEF Budget, FullInv, BudgetInv, Accounted
  <2>5. QED
    BY <2>1, <2>3, <2>4 DEF FollowUpBudget
<1>2. QED
  BY <1>1, FullInvariance, PTL

\* Off and advisory reviews cost one verdict and boundedly many calls.
THEOREM OneVerdictHolds == Spec => []OneVerdict
<1>1. FullInv => OneVerdict
  <2> SUFFICES ASSUME FullInv, one_shot PROVE OneVerdict
    BY DEF OneVerdict
  <2>1. /\ judge.verdicts = IF gates.critic_done THEN 1 ELSE 0
        /\ judge.asked = gates.critic_attempts
        /\ gates.critic_attempts \in 0..MAX_CRITIC_JUDGE_ATTEMPTS
    BY DEF FullInv, BudgetInv, TypeOK, JudgeInv, Memo
  <2>2. QED
    BY <2>1 DEF OneVerdict
<1>2. QED
  BY <1>1, FullInvariance, PTL

\* The unified judge is never lost to a failed call, a skip or an earlier
\* review: a run that finalizes unjudged has spent the judge's budget.
THEOREM JudgeNotLostHolds == Spec => []JudgeNotLost
<1>1. FullInv => JudgeNotLost
  BY DEF FullInv, JudgeInv, Judged, JudgeNotLost, AfterJudge
<1>2. QED
  BY <1>1, FullInvariance, PTL

\* The fingerprint memo keeps a blocking review from faulting the same diff
\* twice in a row, across any number of failed calls.
THEOREM RebuttalStandsHolds == Spec => RebuttalStands
<1> DEFINE A == JudgeRules /\ judge'.raised # NoDiff
                  => judge'.raised # judge.raised
<1>1. FullInv /\ [Next]_vars => [A]_vars
  <2> SUFFICES ASSUME FullInv, JudgeRules, judge'.raised # NoDiff
               PROVE  judge'.raised # judge.raised
    OBVIOUS
  <2>1. PICK fp \in Captured, findings \in BOOLEAN :
          /\ ~skip(fp)
          /\ judge'.raised =
               IF run_delta_to_review(fp) /\ findings THEN fp ELSE NoDiff
    BY DEF JudgeRules, FullInv, BudgetInv, TypeOK
  <2>2. judge'.raised = fp /\ run_delta_to_review(fp) /\ may_fire
    BY <2>1 DEF JudgeRules
  <2>3. CASE one_shot
    BY <2>2, <2>3 DEF may_fire, FullInv, JudgeInv, Memo
  <2>4. CASE ~one_shot
    BY <2>1, <2>2, <2>4 DEF skip, FullInv, JudgeInv, Memo
  <2>5. QED
    BY <2>3, <2>4
<1>2. QED
  BY <1>1, FullInvariance, PTL DEF Spec, RebuttalStands

-----------------------------------------------------------------------------
(* The verifier gate.  Once it has let a poll pass, nothing it looks at    *)
(* changes before the run is finalized.                                    *)

AfterVerifier == {"claim", "source", "judge"} \cup AfterJudge

VerifierInv ==
  pc \in AfterVerifier /\ config.verifier =>
    check_before_finalize(inner, config.verification_tiers_mode) = inner

\* Below the verifier gate a poll changes neither the configuration nor what
\* the verifier gate has seen.
LEMMA BelowVerifier ==
  ASSUME Next, pc' \in AfterVerifier
  PROVE  /\ UNCHANGED <<config, inner>>
         /\ pc \in AfterVerifier \/ VerifierSilent
<1> USE DEF AfterVerifier, AfterJudge
<1>1. CASE Work
  BY <1>1 DEF Work, EditsFile, RunsCheck, WritesTodos, OtherCall, Acts,
              BoundaryTracksWork
<1>2. CASE \/ Concludes \/ NotAwaitingUser \/ AwaitingUserDefers
           \/ AwaitingUser \/ HookSpeaks \/ HookSilent \/ Defers
           \/ NothingToDefer
  BY <1>2 DEF Concludes, NotAwaitingUser, AwaitingUserDefers, AwaitingUser,
              HookSpeaks, HookSilent, Defers, NothingToDefer, GoalGate, Gate,
              FollowUp, FollowUpSaying, Reopens, Passes
<1>3. CASE ResumeGate \/ VerifierSpeaks
  BY <1>3 DEF ResumeGate, VerifierSpeaks, Gate, FollowUp, FollowUpSaying,
              Reopens, Passes
<1>4. CASE VerifierSilent
  BY <1>4 DEF VerifierSilent, Passes
<1>5. CASE ClaimGate \/ SourceGate \/ PollGoal \/ TodoGate \/ OpenIssuesGate
           \/ TrackGate \/ CompletenessGate
  BY <1>5 DEF ClaimGate, SourceGate, PollGoal, GoalGate, TodoGate,
              OpenIssuesGate, TrackGate, CompletenessGate, Gate, FollowUp,
              FollowUpSaying,
              Reopens, Passes
<1>6. CASE JudgeIdle \/ JudgeSkips \/ JudgeFails \/ JudgeRules
  BY <1>6 DEF JudgeIdle, JudgeSkips, JudgeFails, JudgeRules, FollowUp,
              FollowUpSaying,
              Reopens, Passes
<1>7. CASE Rests
  BY <1>7 DEF Rests, vars
<1>8. QED
  BY <1>1, <1>2, <1>3, <1>4, <1>5, <1>6, <1>7 DEF Next, Poll

\* VerifierInv is an invariant of the poll.
LEMMA VerifierInvariance == Spec => []VerifierInv
<1>1. Init => VerifierInv
  BY DEF Init, VerifierInv, AfterVerifier, AfterJudge
<1>2. VerifierInv /\ [Next]_vars => VerifierInv'
  <2> SUFFICES ASSUME VerifierInv, [Next]_vars, pc' \in AfterVerifier,
                      config'.verifier
               PROVE  VerifierInv'
    BY DEF VerifierInv
  <2>1. CASE UNCHANGED vars
    BY <2>1 DEF vars, VerifierInv
  <2>2. CASE Next
    BY <2>2, BelowVerifier DEF VerifierInv, VerifierSilent
  <2>3. QED
    BY <2>1, <2>2
<1>3. QED
  BY <1>1, <1>2, PTL DEF Spec

\* `fired` stands for a nudge that was sent, and for which one: while no check
\* has run it can only have said so.
Told ==
  /\ inner.verification_failed => inner.ran_verification
  /\ inner.fired => IF inner.ran_verification
                      THEN sent.legacy \in {"red", "unrun"}
                      ELSE sent.legacy = "unrun"

\* Only the verifier's own step touches what the one-shot said, and only the
\* model's work and that step touch what the gate has seen.
LEMMA OthersLeaveVerifier ==
  ASSUME sent \in SentType, Next, ~EditsFile, ~RunsCheck, ~VerifierSpeaks
  PROVE  inner' = inner /\ sent'.legacy = sent.legacy
<1>0. ASSUME FollowUp \/ sent' = sent \/ sent' = [sent EXCEPT !.hook = @ + 1]
      PROVE  sent'.legacy = sent.legacy
  BY <1>0 DEF FollowUp, FollowUpSaying, SentType
<1>1. CASE WritesTodos \/ OtherCall \/ BoundaryTracksWork
  BY <1>1 DEF WritesTodos, OtherCall, BoundaryTracksWork, Acts
<1>2. CASE Concludes \/ NotAwaitingUser \/ AwaitingUserDefers \/ HookSilent
           \/ Defers \/ NothingToDefer \/ VerifierSilent \/ JudgeIdle
           \/ JudgeSkips \/ JudgeFails
  BY <1>2 DEF Concludes, NotAwaitingUser, AwaitingUserDefers, HookSilent,
     Defers, NothingToDefer, VerifierSilent, JudgeIdle, JudgeSkips, JudgeFails,
     Passes
<1>3. CASE HookSpeaks
  BY <1>0, <1>3 DEF HookSpeaks
<1>4. CASE JudgeRules
  BY <1>0, <1>4 DEF JudgeRules
<1>5. ASSUME NEW due, NEW counter, NEW next, Gate(due, counter, next)
      PROVE  inner' = inner /\ sent'.legacy = sent.legacy
  BY <1>0, <1>5 DEF Gate, Passes
<1>6. CASE AwaitingUser \/ PollGoal
  BY <1>5, <1>6 DEF AwaitingUser, PollGoal, GoalGate
<1>7. CASE ResumeGate \/ ClaimGate \/ SourceGate
  BY <1>5, <1>7 DEF ResumeGate, ClaimGate, SourceGate
<1>8. CASE TodoGate \/ OpenIssuesGate \/ TrackGate \/ CompletenessGate
  BY <1>5, <1>8 DEF TodoGate, OpenIssuesGate, TrackGate, CompletenessGate
<1>9. CASE Rests
  BY <1>9 DEF Rests, vars
<1>10. QED
  BY <1>1, <1>2, <1>3, <1>4, <1>6, <1>7, <1>8, <1>9 DEF Next, Work, Poll

\* Told is an invariant of the poll.
LEMMA ToldInvariance == Spec => []Told
<1>1. Init => Told
  BY DEF Init, InnerDefault, Told
<1>2. FullInv /\ Told /\ [Next]_vars => Told'
  <2> SUFFICES ASSUME FullInv, Told, [Next]_vars PROVE Told'
    OBVIOUS
  <2>0. inner \in Inner /\ sent \in SentType
    BY DEF FullInv, BudgetInv, TypeOK, SentType
  <2>1. CASE inner' = inner /\ sent'.legacy = sent.legacy
    BY <2>1 DEF Told
  <2>2. CASE EditsFile
    <3>1. /\ sent' = sent /\ inner'.fired = inner.fired
          /\ inner'.ran_verification = inner.ran_verification
          /\ inner'.verification_failed = inner.verification_failed
      BY <2>0, <2>2, RecordEditKeeps DEF EditsFile, Acts
    <3> QED
      BY <3>1 DEF Told
  <2>3. CASE RunsCheck
    <3>1. PICK c \in Command : inner' = record_command(inner, c)
      BY <2>3 DEF RunsCheck
    <3>2. /\ sent' = sent /\ inner'.fired = inner.fired
          /\ inner' = inner \/ inner'.ran_verification
      BY <2>0, <2>3, <3>1, RecordCommandKeeps DEF RunsCheck, Acts
    <3> QED
      BY <3>2 DEF Told
  <2>4. CASE VerifierSpeaks
    <3> DEFINE mode == config.verification_tiers_mode
    <3>1. inner' = check_before_finalize(inner, mode) /\ inner' # inner
      BY <2>4 DEF VerifierSpeaks
    <3>2. CASE legacy_nudge_due(inner)
      <4>1. inner' = [inner EXCEPT !.fired = TRUE]
        BY <3>1, <3>2 DEF check_before_finalize
      <4>2. /\ inner'.ran_verification = inner.ran_verification
            /\ inner'.verification_failed = inner.verification_failed
        BY <2>0, <4>1 DEF Inner
      <4>3. sent'.legacy = legacy_nudge(inner)
        BY <2>0, <2>4, <3>2 DEF VerifierSpeaks, FollowUpSaying, SentType
      <4> QED
        BY <3>2, <4>2, <4>3 DEF Told, legacy_nudge, legacy_nudge_due
    <3>3. CASE ~legacy_nudge_due(inner)
      <4>1. inner' = [inner EXCEPT !.escalations = inner.escalations + 1]
        BY <3>1, <3>3 DEF check_before_finalize
      <4>2. /\ inner'.ran_verification = inner.ran_verification
            /\ inner'.verification_failed = inner.verification_failed
            /\ inner'.fired = inner.fired
        BY <2>0, <4>1 DEF Inner
      <4>3. sent'.legacy = sent.legacy
        BY <2>0, <2>4, <3>3 DEF VerifierSpeaks, FollowUpSaying, SentType
      <4> QED
        BY <4>2, <4>3 DEF Told
    <3> QED
      BY <3>2, <3>3
  <2>5. CASE UNCHANGED vars
    BY <2>1, <2>5 DEF vars
  <2>6. QED
    BY <2>0, <2>1, <2>2, <2>3, <2>4, <2>5, OthersLeaveVerifier
<1>3. QED
  BY <1>1, <1>2, FullInvariance, PTL DEF Spec

\* check_before_finalize has had its word with every run that finishes with
\* code it never saw checked, saw red or saw only fast checks of, and for the
\* first and the last of these it was the right word.  A project gate is
\* excluded: with one, the status says FastGreenOnly of more greens than the
\* escalation answers to.
THEOREM UnverifiedWorkIsChallengedHolds ==
  ASSUME \A c \in Configs : ~c.project_gate
  PROVE  Spec => []UnverifiedWorkIsChallenged
<1>1. FullInv /\ VerifierInv /\ Told => UnverifiedWorkIsChallenged
  <2> SUFFICES ASSUME FullInv, VerifierInv, Told, pc = "finalized",
                      config.verifier
               PROVE  UnverifiedWorkIsChallenged
    BY DEF UnverifiedWorkIsChallenged, FastGreenIsCarried
  <2> DEFINE mode == config.verification_tiers_mode
  <2>1. /\ inner \in Inner /\ config \in Config /\ ~config.project_gate
        /\ mode \in GateMode
        /\ inner.escalations <= escalation_cap(mode)
        /\ escalation_cap(mode) \in Nat
    BY CapsAreBounds DEF FullInv, BudgetInv, TypeOK, VerifierCaps, Config
  <2>2. check_before_finalize(inner, mode) = inner
    BY DEF VerifierInv, AfterVerifier, AfterJudge
  <2>3. ~legacy_nudge_due(inner)
    <3>1. legacy_nudge_due(inner) => inner = [inner EXCEPT !.fired = TRUE]
      BY <2>2 DEF check_before_finalize
    <3>2. QED
      BY <2>1, <3>1 DEF legacy_nudge_due, Inner
  <2>4. ~escalation_due(inner, mode)
    <3>1. escalation_due(inner, mode) =>
            inner = [inner EXCEPT !.escalations = inner.escalations + 1]
      BY <2>2, <2>3 DEF check_before_finalize
    <3>2. inner.escalations \in Nat
      BY <2>1 DEF Inner
    <3>3. inner # [inner EXCEPT !.escalations = inner.escalations + 1]
      BY <2>1, <3>2 DEF Inner
    <3>4. QED
      BY <3>1, <3>3
  <2>5. FastGreenIsCarried
    BY <2>1, <2>3, <2>4
    DEF FastGreenIsCarried, status, escalation_due, is_fast_green_only, Inner
  <2>6. QED
    BY <2>3, <2>5 DEF UnverifiedWorkIsChallenged, legacy_nudge_due, Told
<1>2. QED
  BY <1>1, FullInvariance, VerifierInvariance, ToldInvariance, PTL

-----------------------------------------------------------------------------
(* Termination: what the poll and the model have left.                     *)

FollowUpsLeft == (MaxHooks - sent.hook) + (Budget - sent.gate)

StepsLeft ==
  (WorkBound - work.steps) + (MAX_TRACK_NUDGES - gates.track_nudges)

PlaceOf(p) ==
  [working |-> 14, user |-> 13, hook |-> 12, defer |-> 11, resume |-> 10,
   verifier |-> 9, claim |-> 8, source |-> 7, judge |-> 6, goal |-> 5,
   todo |-> 4, issues |-> 3, track |-> 2, completeness |-> 1,
   finalized |-> 0, deferred |-> 0, awaiting_user |-> 0][p]

\* A follow-up may refill the steps of the model, and a step of either sends
\* the poll back to its start, never the other way round.
Left == <<FollowUpsLeft, StepsLeft, PlaceOf(pc)>>

LeftOK == Left \in [1..3 -> Nat]

\* Each place of the poll has its number.
LEMMA Places ==
  /\ PlaceOf("working") = 14 /\ PlaceOf("user") = 13 /\ PlaceOf("hook") = 12
  /\ PlaceOf("defer") = 11 /\ PlaceOf("resume") = 10
  /\ PlaceOf("verifier") = 9 /\ PlaceOf("claim") = 8 /\ PlaceOf("source") = 7
  /\ PlaceOf("judge") = 6 /\ PlaceOf("goal") = 5 /\ PlaceOf("todo") = 4
  /\ PlaceOf("issues") = 3 /\ PlaceOf("track") = 2
  /\ PlaceOf("completeness") = 1
  /\ \A p \in Ended : PlaceOf(p) = 0
BY DEF PlaceOf, Ended

\* The budget of a configuration is a natural number.
LEMMA BudgetIsNat ==
  ASSUME TypeOK
  PROVE  Budget \in Nat
<1>1. config \in Config
  BY DEF TypeOK
<1>2. /\ nudge_cap(config.claim_gate_mode) \in Nat
      /\ nudge_cap(config.source_gate_mode) \in Nat
      /\ nudge_cap(config.completeness_gate_mode) \in Nat
      /\ escalation_cap(config.verification_tiers_mode) \in Nat
      /\ open_issues_cap \in Nat
  BY <1>1, CapsAreBounds, OpenIssuesCap DEF Config, TypeOK
<1> QED
  BY <1>1, <1>2 DEF Budget

\* Within the budgets, what is left is a triple of natural numbers.
LEMMA LeftType ==
  ASSUME TypeOK, FollowUpBudget
  PROVE  LeftOK
<1>1. FollowUpsLeft \in Nat
  BY BudgetIsNat DEF TypeOK, FollowUpBudget, FollowUpsLeft
<1>2. StepsLeft \in Nat
  <2>1. work.steps \in 0..WorkBound
    BY DEF TypeOK
  <2>2. gates.track_nudges \in 0..MAX_TRACK_NUDGES
    BY DEF TypeOK
  <2> QED
    BY <2>1, <2>2 DEF StepsLeft
<1>3. PlaceOf(pc) \in Nat
  <2>1. pc \in Labels
    BY DEF TypeOK, Labels
  <2> QED
    BY <2>1, Places DEF Labels
<1> QED
  BY <1>1, <1>2, <1>3 DEF LeftOK, Left

\* The triple goes down in one of three ways.
LEMMA LeftFalls ==
  ASSUME LeftOK, LeftOK',
         \/ FollowUpsLeft' < FollowUpsLeft
         \/ FollowUpsLeft' = FollowUpsLeft /\ StepsLeft' < StepsLeft
         \/ /\ FollowUpsLeft' = FollowUpsLeft /\ StepsLeft' = StepsLeft
            /\ PlaceOf(pc') < PlaceOf(pc)
  PROVE  <<Left', Left>> \in Lex(3)
<1>1. /\ Left[1] = FollowUpsLeft /\ Left[2] = StepsLeft
      /\ Left[3] = PlaceOf(pc)
  BY DEF Left
<1>2. /\ Left'[1] = FollowUpsLeft' /\ Left'[2] = StepsLeft'
      /\ Left'[3] = PlaceOf(pc')
  BY DEF Left
<1>3. \E j \in 1..3 : /\ \A i \in 1..(j-1) : Left'[i] = Left[i]
                      /\ Left'[j] < Left[j]
  <2>1. CASE FollowUpsLeft' < FollowUpsLeft
    BY <1>1, <1>2, <2>1
  <2>2. CASE FollowUpsLeft' = FollowUpsLeft /\ StepsLeft' < StepsLeft
    BY <1>1, <1>2, <2>2
  <2>3. CASE /\ FollowUpsLeft' = FollowUpsLeft /\ StepsLeft' = StepsLeft
             /\ PlaceOf(pc') < PlaceOf(pc)
    <3>1. \A i \in 1..2 : Left'[i] = Left[i]
      BY <1>1, <1>2, <2>3
    <3> QED
      BY <1>1, <1>2, <2>3, <3>1
  <2> QED
    BY <2>1, <2>2, <2>3
<1> QED
  BY <1>3, LexAt DEF LeftOK

\* A follow-up is paid for once.
LEMMA FollowUpSpends ==
  ASSUME TypeOK, FollowUpBudget, NEW legacy, FollowUpSaying(legacy)
  PROVE  FollowUpsLeft' < FollowUpsLeft
<1>1. Budget' = Budget
  BY DEF FollowUpSaying, Reopens, Budget, one_shot, open_issues_cap
<1>2. /\ sent.gate \in Nat /\ sent.hook \in Nat
      /\ sent'.gate = sent.gate + 1 /\ sent'.hook = sent.hook
  BY BudgetIsNat DEF FollowUpSaying, TypeOK, FollowUpBudget
<1> QED
  BY <1>1, <1>2, BudgetIsNat DEF FollowUpsLeft

\* A gate that passes moves the poll on.
LEMMA PassSpends ==
  ASSUME NEW next, Passes(next), PlaceOf(next) < PlaceOf(pc)
  PROVE  /\ FollowUpsLeft' = FollowUpsLeft /\ StepsLeft' = StepsLeft
         /\ PlaceOf(pc') < PlaceOf(pc)
<1>1. Budget' = Budget
  BY DEF Passes, Budget, one_shot, open_issues_cap
<1> QED
  BY <1>1 DEF Passes, FollowUpsLeft, StepsLeft

\* A counted gate does one or the other.
LEMMA GateSpends ==
  ASSUME TypeOK, FollowUpBudget, LeftOK, LeftOK', NEW due \in BOOLEAN,
         NEW counter, NEW next, Gate(due, counter, next),
         PlaceOf(next) < PlaceOf(pc)
  PROVE  <<Left', Left>> \in Lex(3)
<1>1. CASE due
  BY <1>1, FollowUpSpends, LeftFalls DEF Gate, FollowUp
<1>2. CASE ~due
  BY <1>2, PassSpends, LeftFalls DEF Gate
<1> QED
  BY <1>1, <1>2

\* A step of the model spends one of its steps, or one of the track nudges.
LEMMA WorkSpends ==
  ASSUME TypeOK, LeftOK, LeftOK', Work
  PROVE  <<Left', Left>> \in Lex(3)
<1>1. UNCHANGED <<config, sent>>
  BY DEF Work, EditsFile, RunsCheck, WritesTodos, OtherCall, Acts,
     BoundaryTracksWork
<1>2. FollowUpsLeft' = FollowUpsLeft
  BY <1>1 DEF FollowUpsLeft, Budget, one_shot, open_issues_cap
<1>3. /\ work.steps \in Nat /\ gates.track_nudges \in Nat
      /\ work \in WorkType
  BY DEF TypeOK, WorkType
<1>4. \/ work'.steps = work.steps + 1 /\ UNCHANGED gates
      \/ /\ gates'.track_nudges = gates.track_nudges + 1
         /\ work'.steps = work.steps
  <2>1. ASSUME NEW w \in WorkType, w.steps = work.steps, Acts(w)
        PROVE  work'.steps = work.steps + 1 /\ UNCHANGED gates
    BY <2>1 DEF Acts, WorkType
  <2>2. CASE EditsFile
    <3>1. PICK tree \in Trees :
            Acts([work EXCEPT !.edited = TRUE, !.tree = tree])
      BY <2>2 DEF EditsFile
    <3>2. /\ [work EXCEPT !.edited = TRUE, !.tree = tree] \in WorkType
          /\ [work EXCEPT !.edited = TRUE, !.tree = tree].steps = work.steps
      BY <1>3 DEF WorkType
    <3> QED
      BY <2>1, <3>1, <3>2
  <2>3. CASE RunsCheck
    BY <1>3, <2>1, <2>3 DEF RunsCheck
  <2>4. CASE WritesTodos
    <3>1. /\ [work EXCEPT !.wrote_todos = TRUE] \in WorkType
          /\ [work EXCEPT !.wrote_todos = TRUE].steps = work.steps
      BY <1>3 DEF WorkType
    <3> QED
      BY <2>1, <2>4, <3>1 DEF WritesTodos
  <2>5. CASE OtherCall
    <3>1. PICK tree \in Trees : Acts([work EXCEPT !.tree = tree])
      BY <2>5 DEF OtherCall
    <3>2. /\ [work EXCEPT !.tree = tree] \in WorkType
          /\ [work EXCEPT !.tree = tree].steps = work.steps
      BY <1>3 DEF WorkType
    <3> QED
      BY <2>1, <3>1, <3>2
  <2>6. CASE BoundaryTracksWork
    <3>1. gates'.track_nudges = gates.track_nudges + 1
      BY <2>6 DEF BoundaryTracksWork, TypeOK
    <3>2. work'.steps = work.steps
      BY <1>3, <2>6 DEF BoundaryTracksWork, WorkType
    <3> QED
      BY <3>1, <3>2
  <2> QED
    BY <2>2, <2>3, <2>4, <2>5, <2>6 DEF Work
<1>5. StepsLeft' < StepsLeft
  BY <1>3, <1>4 DEF StepsLeft
<1> QED
  BY <1>2, <1>5, LeftFalls

\* So does a step of the judge: it rules and speaks, or the poll moves on.
LEMMA JudgeSpends ==
  ASSUME TypeOK, FollowUpBudget, LeftOK, LeftOK',
         JudgeIdle \/ JudgeSkips \/ JudgeFails \/ JudgeRules
  PROVE  <<Left', Left>> \in Lex(3)
<1>21. ASSUME pc = "judge", pc' = "goal", UNCHANGED <<config, work, sent>>,
              gates'.track_nudges = gates.track_nudges
       PROVE  <<Left', Left>> \in Lex(3)
  <2>1. FollowUpsLeft' = FollowUpsLeft
    BY <1>21 DEF FollowUpsLeft, Budget, one_shot, open_issues_cap
  <2>2. StepsLeft' = StepsLeft
    BY <1>21 DEF StepsLeft
  <2>3. PlaceOf(pc') < PlaceOf(pc)
    BY <1>21, Places
  <2> QED
    BY <2>1, <2>2, <2>3, LeftFalls
<1>1. CASE JudgeIdle \/ JudgeSkips
  BY <1>1, <1>21 DEF JudgeIdle, JudgeSkips, Passes
<1>2. CASE JudgeFails
  <2>1. gates'.track_nudges = gates.track_nudges
    BY <1>2 DEF JudgeFails, TypeOK
  <2> QED
    BY <1>2, <1>21, <2>1 DEF JudgeFails
<1>3. CASE JudgeRules
  <2>1. PICK fp \in Captured, complete \in BOOLEAN, findings \in BOOLEAN :
          LET messages == ~complete \/ findings
          IN  /\ gates' = record_verdict(fp, messages, findings)
              /\ \/ messages /\ FollowUp
                 \/ /\ ~messages /\ pc' = "goal"
                    /\ UNCHANGED <<config, inner, work, sent>>
    BY <1>3 DEF JudgeRules
  <2>2. CASE FollowUp
    BY <2>2, FollowUpSpends, LeftFalls DEF FollowUp
  <2>3. CASE pc' = "goal" /\ UNCHANGED <<config, inner, work, sent>>
    <3>1. gates'.track_nudges = gates.track_nudges
      BY <2>1 DEF record_verdict, TypeOK
    <3> QED
      BY <1>3, <1>21, <2>3, <3>1 DEF JudgeRules
  <2> QED
    BY <2>1, <2>2, <2>3
<1> QED
  BY <1>1, <1>2, <1>3

\* And every other step of the poll.
LEMMA PollSpends ==
  ASSUME TypeOK, FollowUpBudget, LeftOK, LeftOK', Poll
  PROVE  <<Left', Left>> \in Lex(3)
<1>21. ASSUME NEW next, Passes(next), PlaceOf(next) < PlaceOf(pc)
       PROVE  <<Left', Left>> \in Lex(3)
  BY <1>21, PassSpends, LeftFalls
<1>1. CASE Concludes
  <2>1. FollowUpsLeft' = FollowUpsLeft
    BY <1>1 DEF Concludes, FollowUpsLeft, Budget, one_shot, open_issues_cap
  <2>2. StepsLeft' = StepsLeft
    BY <1>1 DEF Concludes, StepsLeft
  <2>3. PlaceOf(pc') < PlaceOf(pc)
    BY <1>1, Places DEF Concludes
  <2> QED
    BY <2>1, <2>2, <2>3, LeftFalls
<1>2. CASE \/ NotAwaitingUser \/ AwaitingUserDefers \/ HookSilent \/ Defers
           \/ NothingToDefer \/ VerifierSilent
  <2>1. \E next \in Labels : Passes(next) /\ PlaceOf(next) < PlaceOf(pc)
    BY <1>2, Places DEF NotAwaitingUser, AwaitingUserDefers, HookSilent,
       Defers, NothingToDefer, VerifierSilent, Labels, Ended
  <2> QED
    BY <1>21, <2>1
<1>3. CASE AwaitingUser \/ PollGoal
  <2>1. PICK next \in {"awaiting_user", "todo"} :
          GoalGate(next) /\ PlaceOf(next) < PlaceOf(pc)
    BY <1>3, Places DEF AwaitingUser, PollGoal, Ended
  <2>2. \E due \in BOOLEAN : Gate(due, "goal_reacts", next)
    BY <2>1 DEF GoalGate
  <2> QED
    BY <2>1, <2>2, GateSpends
<1>4. CASE HookSpeaks
  <2>1. Budget' = Budget
    BY <1>4 DEF HookSpeaks, Reopens, Budget, one_shot, open_issues_cap
  <2>2. /\ sent.gate \in Nat /\ sent.hook \in Nat
        /\ sent'.gate = sent.gate /\ sent'.hook = sent.hook + 1
    BY <1>4 DEF HookSpeaks, TypeOK
  <2>3. FollowUpsLeft' < FollowUpsLeft
    BY <2>1, <2>2, BudgetIsNat DEF FollowUpsLeft
  <2> QED
    BY <2>3, LeftFalls
<1>5. CASE ResumeGate
  <2>1. \E due \in BOOLEAN : Gate(due, "resume_nudges", "verifier")
    BY <1>5 DEF ResumeGate
  <2>2. PlaceOf("verifier") < PlaceOf(pc)
    BY <1>5, Places DEF ResumeGate
  <2> QED
    BY <2>1, <2>2, GateSpends
<1>6. CASE VerifierSpeaks
  BY <1>6, FollowUpSpends, LeftFalls DEF VerifierSpeaks
<1>7. CASE ClaimGate
  <2>1. \E due \in BOOLEAN : Gate(due, "claim_nudges", "source")
    BY <1>7 DEF ClaimGate
  <2>2. PlaceOf("source") < PlaceOf(pc)
    BY <1>7, Places DEF ClaimGate
  <2> QED
    BY <2>1, <2>2, GateSpends
<1>8. CASE SourceGate
  <2>1. \E due \in BOOLEAN : Gate(due, "source_nudges", "judge")
    BY <1>8 DEF SourceGate
  <2>2. PlaceOf("judge") < PlaceOf(pc)
    BY <1>8, Places DEF SourceGate
  <2> QED
    BY <2>1, <2>2, GateSpends
<1>9. CASE TodoGate
  <2>1. \E due \in BOOLEAN : Gate(due, "todo_nudges", "issues")
    BY <1>9 DEF TodoGate
  <2>2. PlaceOf("issues") < PlaceOf(pc)
    BY <1>9, Places DEF TodoGate
  <2> QED
    BY <2>1, <2>2, GateSpends
<1>10. CASE OpenIssuesGate
  <2>1. \E due \in BOOLEAN : Gate(due, "open_issues_nudges", "track")
    BY <1>10 DEF OpenIssuesGate
  <2>2. PlaceOf("track") < PlaceOf(pc)
    BY <1>10, Places DEF OpenIssuesGate
  <2> QED
    BY <2>1, <2>2, GateSpends
<1>11. CASE TrackGate
  <2>1. \E due \in BOOLEAN : Gate(due, "track_nudges", "completeness")
    BY <1>11 DEF TrackGate, should_advise_untracked_work
  <2>2. PlaceOf("completeness") < PlaceOf(pc)
    BY <1>11, Places DEF TrackGate
  <2> QED
    BY <2>1, <2>2, GateSpends
<1>12. CASE CompletenessGate
  <2>1. \E due \in BOOLEAN : Gate(due, "completeness_nudges", "finalized")
    BY <1>12 DEF CompletenessGate
  <2>2. PlaceOf("finalized") < PlaceOf(pc)
    BY <1>12, Places DEF CompletenessGate, Ended
  <2> QED
    BY <2>1, <2>2, GateSpends
<1>13. CASE JudgeIdle \/ JudgeSkips \/ JudgeFails \/ JudgeRules
  BY <1>13, JudgeSpends
<1> QED
  BY <1>1, <1>2, <1>3, <1>4, <1>5, <1>6, <1>7, <1>8, <1>9, <1>10, <1>11,
     <1>12, <1>13 DEF Poll

\* For every configuration and every budget the finalization poll runs out:
\* each step of the gates and of the model between two polls lowers the same
\* well-founded triple, whatever judges, hooks and lists answer.  With the
\* fairness of Spec this is why a run hands control back.
THEOREM GatesRunOut ==
  /\ IsWellFoundedOn(Lex(3), [1..3 -> Nat])
  /\ Spec => []LeftOK
  /\ Spec => [][Work \/ Poll => <<Left', Left>> \in Lex(3)]_vars
<1>1. TypeOK /\ FollowUpBudget => LeftOK
  BY LeftType
<1>2. Spec => []LeftOK
  BY <1>1, GatesTypeCorrect, FollowUpBudgetHolds, PTL
<1>3. TypeOK /\ FollowUpBudget /\ LeftOK /\ LeftOK' /\ [Next]_vars
        => [Work \/ Poll => <<Left', Left>> \in Lex(3)]_vars
  BY WorkSpends, PollSpends
<1>4. Spec => [][Work \/ Poll => <<Left', Left>> \in Lex(3)]_vars
  BY <1>2, <1>3, GatesTypeCorrect, FollowUpBudgetHolds, PTL DEF Spec
<1>5. IsWellFoundedOn(Lex(3), [1..3 -> Nat])
  BY LexIsWellFounded
<1> QED
  BY <1>2, <1>4, <1>5

=============================================================================
