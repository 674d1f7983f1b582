------------------------- MODULE FinalizationGates -------------------------
(***************************************************************************)
(* The finalization arbiter: each time the model ends its turn the loop    *)
(* polls the gates in a fixed order, and the first gate that has something *)
(* to say sends the model back to work.  The gates judge the messages of   *)
(* the whole run, so what was true once stays true, and it is the budgets  *)
(* in GateStates that keep a run from being sent back for ever.            *)
(*                                                                         *)
(* `pc` is "working" while the model acts, then names the gate that is     *)
(* polled next: the poll awaits hooks, judges and git in between.  What a  *)
(* gate finds in the final answer, on the todo list or in the issue store  *)
(* is an input of its step (the todo list is process-global and other      *)
(* agents write it); what it finds in the run's history is state.          *)
(***************************************************************************)
EXTENDS VerifierGate, FiniteSets

CONSTANTS
  Configs,           \* the run configurations under consideration
  Trees,             \* fingerprints of the working tree
  Baseline,          \* the fingerprint at run start
  NoDiff,            \* no fingerprint: capture off or failed
  MAX_RESUME_NUDGE, MAX_CRITIC_JUDGE_ATTEMPTS, MAX_REVIEW_REACT,
  MAX_GOAL_REACT, MAX_TODO_NUDGES, MAX_OPEN_ISSUES_NUDGES, MAX_TRACK_NUDGES,
  MAX_BLOCKING_NUDGES, \* the blocking cap of the claim, source and
                       \* completeness gates
  MaxHooks,          \* bound: follow-ups of the caller's hook
  WorkBound          \* bound: tool calls between two finalizations

\* What LoopConfig arms.  The booleans say whether an optional part is set.
Config == [hook : BOOLEAN, coordinator : BOOLEAN, verifier : BOOLEAN,
           project_gate : BOOLEAN, critic : BOOLEAN, baseline : BOOLEAN,
           goal : BOOLEAN, issue_db : BOOLEAN, session : BOOLEAN,
           code_review_mode : GateMode, claim_gate_mode : GateMode,
           source_gate_mode : GateMode, completeness_gate_mode : GateMode,
           open_issues_gate_mode : GateMode,
           verification_tiers_mode : GateMode]

ASSUME GatesAssumption ==
  /\ Configs \subseteq Config
  /\ Baseline \in Trees /\ NoDiff \notin Trees
  /\ MAX_RESUME_NUDGE \in Nat /\ MAX_CRITIC_JUDGE_ATTEMPTS \in Nat
  /\ MAX_REVIEW_REACT \in Nat /\ MAX_GOAL_REACT \in Nat
  /\ MAX_TODO_NUDGES \in Nat /\ MAX_OPEN_ISSUES_NUDGES \in Nat \ {0}
  /\ MAX_TRACK_NUDGES \in Nat /\ MAX_BLOCKING_NUDGES \in Nat \ {0}
  /\ MaxHooks \in Nat /\ WorkBound \in Nat

VARIABLES
  config,      \* the run's LoopConfig, fixed at its start
  inner,       \* the verifier gate
  gates,       \* GateStates
  work,        \* what the run's messages and the working tree show
  pc,          \* "working", the gate to poll next, or how the run ended
  sent,        \* history: follow-ups sent by gates, and by the hook, and what
               \* the verifier's one-shot nudge said
  judge        \* history: what the unified judge was asked and said

vars == <<config, inner, gates, work, pc, sent, judge>>

GateStates ==
  [critic_done |-> FALSE, critic_attempts |-> 0, code_review_reacts |-> 0,
   last_reviewed_fingerprint |-> NoDiff, last_review_findings |-> FALSE,
   goal_reacts |-> 0, todo_nudges |-> 0, resume_nudges |-> 0,
   completeness_nudges |-> 0, claim_nudges |-> 0, source_nudges |-> 0,
   open_issues_nudges |-> 0, track_nudges |-> 0]

Ended == {"finalized", "deferred", "awaiting_user"}

Init ==
  /\ config \in Configs
  /\ inner = InnerDefault
  /\ gates = GateStates
  /\ work = [calls |-> FALSE, edited |-> FALSE, wrote_todos |-> FALSE,
             failed_tail |-> FALSE, tree |-> Baseline, steps |-> 0]
  /\ pc = "working"
  /\ sent = [gate |-> 0, hook |-> 0, legacy |-> "none"]
  /\ judge = [asked |-> 0, verdicts |-> 0, now |-> "idle", reviewed |-> {},
              raised |-> NoDiff]

-----------------------------------------------------------------------------
(* The model works.  A tool call leaves the result that ends the           *)
(* transcript, failed in a way worth a retry or not.                       *)

Acts(w) ==
  /\ pc = "working" /\ work.steps < WorkBound
  /\ \E failed \in BOOLEAN :
       work' = [w EXCEPT !.calls = TRUE, !.failed_tail = failed,
                         !.steps = @ + 1]
  /\ UNCHANGED <<config, gates, pc, sent, judge>>

\* A file edit, of a code file or not.
EditsFile ==
  /\ \E tree \in Trees : Acts([work EXCEPT !.edited = TRUE, !.tree = tree])
  /\ inner' \in IF config.verifier THEN {inner, record_edit(inner)}
                ELSE {inner}

RunsCheck ==
  /\ config.verifier
  /\ Acts(work)
  /\ \E c \in Command : /\ c.gate => config.project_gate
                        /\ inner' = record_command(inner, c)

WritesTodos ==
  /\ Acts([work EXCEPT !.wrote_todos = TRUE])
  /\ UNCHANGED inner

\* Any other call; a shell command may change the tree.
OtherCall ==
  /\ \E tree \in Trees : Acts([work EXCEPT !.tree = tree])
  /\ UNCHANGED inner

should_advise_untracked_work(unfinished) ==
  /\ config.session /\ gates.track_nudges < MAX_TRACK_NUDGES
  /\ ~unfinished /\ work.edited

\* The boundary nudge between two turns shares its budget with the track
\* gate.  It is a message in the tail, but not a follow-up.
BoundaryTracksWork ==
  /\ pc = "working" /\ work.steps > 0
  /\ \E unfinished \in BOOLEAN : should_advise_untracked_work(unfinished)
  /\ gates' = [gates EXCEPT !.track_nudges = @ + 1]
  /\ work' = [work EXCEPT !.failed_tail = FALSE]
  /\ UNCHANGED <<config, inner, pc, sent, judge>>

\* The model ends its turn and the poll begins.
Concludes ==
  /\ pc = "working" /\ pc' = "user"
  /\ judge' = [judge EXCEPT !.now = "idle"]
  /\ UNCHANGED <<config, inner, gates, work, sent>>

-----------------------------------------------------------------------------
(* The budgets.                                                            *)

\* claim_nudge_cap, source_nudge_cap and completeness_nudge_cap.
nudge_cap(mode) ==
  CASE mode = "Off"      -> 0
    [] mode = "Advisory" -> 1
    [] mode = "Blocking" -> MAX_BLOCKING_NUDGES

open_issues_cap ==
  CASE config.open_issues_gate_mode = "Off"      -> 0
    [] config.open_issues_gate_mode = "Advisory" -> 1
    [] config.open_issues_gate_mode = "Blocking" -> MAX_OPEN_ISSUES_NUDGES

one_shot == config.code_review_mode # "Blocking"

\* What the gates of a run may send back in all.
Budget ==
  MAX_RESUME_NUDGE
  + (IF config.verifier THEN 1 + escalation_cap(config.verification_tiers_mode)
     ELSE 0)
  + nudge_cap(config.claim_gate_mode) + nudge_cap(config.source_gate_mode)
  + (IF ~config.critic THEN 0 ELSE IF one_shot THEN 1 ELSE MAX_REVIEW_REACT)
  + (IF config.goal THEN MAX_GOAL_REACT ELSE 0)
  + MAX_TODO_NUDGES + open_issues_cap
  + (IF config.session THEN MAX_TRACK_NUDGES ELSE 0)
  + nudge_cap(config.completeness_gate_mode)

-----------------------------------------------------------------------------
(* The poll.                                                               *)

\* A gate speaks: its message reopens the run and follows the last result.
Reopens ==
  /\ pc' = "working"
  /\ work' = [work EXCEPT !.failed_tail = FALSE, !.steps = 0]
  /\ UNCHANGED config

\* `sent.gate` counts to one above the budget it is compared with.
FollowUpSaying(legacy) ==
  /\ Reopens
  /\ sent' = [sent EXCEPT !.gate = IF @ > Budget THEN @ ELSE @ + 1,
                          !.legacy = legacy]

FollowUp == FollowUpSaying(sent.legacy)

Passes(next) ==
  /\ pc' = next
  /\ UNCHANGED <<config, inner, gates, work, sent, judge>>

\* A gate with a counter: it speaks when `due`, within its cap.
Gate(due, counter, next) ==
  IF due THEN /\ FollowUp
              /\ gates' = [gates EXCEPT ![counter] = @ + 1]
              /\ UNCHANGED <<inner, judge>>
  ELSE Passes(next)

\* Mutant: a reaction to an unmet goal is not counted.
GoalGate_uncounted(next) ==
  \E unmet \in BOOLEAN :
    IF config.goal /\ gates.goal_reacts < MAX_GOAL_REACT /\ unmet
    THEN FollowUp /\ UNCHANGED <<inner, gates, judge>>
    ELSE Passes(next)

GoalGate(next) ==
  \E unmet \in BOOLEAN :
    Gate(/\ config.goal /\ gates.goal_reacts < MAX_GOAL_REACT
         /\ unmet, "goal_reacts", next)

\* Gate 0: a question to the user outranks everything but a goal.
NotAwaitingUser == pc = "user" /\ Passes("hook")

AwaitingUserDefers == pc = "user" /\ config.coordinator /\ Passes("deferred")

AwaitingUser == pc = "user" /\ GoalGate("awaiting_user")

HookSpeaks ==
  /\ pc = "hook" /\ config.hook /\ sent.hook < MaxHooks
  /\ Reopens /\ sent' = [sent EXCEPT !.hook = @ + 1]
  /\ UNCHANGED <<inner, gates, judge>>

HookSilent == pc = "hook" /\ Passes("defer")

Defers == pc = "defer" /\ config.coordinator /\ Passes("deferred")

NothingToDefer == pc = "defer" /\ Passes("resume")

ResumeGate ==
  /\ pc = "resume"
  /\ Gate(/\ gates.resume_nudges < MAX_RESUME_NUDGE
          /\ work.failed_tail, "resume_nudges", "verifier")

VerifierSpeaks ==
  LET checked == check_before_finalize(inner, config.verification_tiers_mode)
  IN  /\ pc = "verifier" /\ config.verifier /\ checked # inner
      /\ inner' = checked
      /\ FollowUpSaying(IF legacy_nudge_due(inner) THEN legacy_nudge(inner)
                        ELSE sent.legacy)
      /\ UNCHANGED <<gates, judge>>

VerifierSilent ==
  /\ pc = "verifier"
  /\ config.verifier =>
       check_before_finalize(inner, config.verification_tiers_mode) = inner
  /\ Passes("claim")

ClaimGate ==
  /\ pc = "claim"
  /\ \E unsupported \in BOOLEAN :
       Gate(/\ gates.claim_nudges < nudge_cap(config.claim_gate_mode)
            /\ unsupported, "claim_nudges", "source")

\* The files it reads are those any agent of the process has modified since
\* the run began, so they too are an input.
SourceGate ==
  /\ pc = "source"
  /\ \E modified, unsupported \in BOOLEAN :
       Gate(/\ gates.source_nudges < nudge_cap(config.source_gate_mode)
            /\ modified /\ unsupported, "source_nudges", "judge")

-----------------------------------------------------------------------------
(* The unified judge: one verdict a run, or, when blocking, a review of    *)
(* every new diff until it is clean.                                       *)

may_fire ==
  /\ config.critic /\ work.calls
  /\ IF one_shot THEN /\ ~gates.critic_done
                      /\ gates.critic_attempts < MAX_CRITIC_JUDGE_ATTEMPTS
     ELSE gates.code_review_reacts < MAX_REVIEW_REACT

\* The fingerprint of the captured diff; git may fail.
Captured ==
  IF config.code_review_mode = "Off" THEN {NoDiff} ELSE {NoDiff, work.tree}

run_delta_to_review(fp) ==
  fp # NoDiff /\ (config.baseline => fp # Baseline)

skip(fp) ==
  /\ ~one_shot /\ run_delta_to_review(fp)
  /\ fp = gates.last_reviewed_fingerprint /\ gates.last_review_findings

JudgeIdle == pc = "judge" /\ ~may_fire /\ Passes("goal")

JudgeSkips ==
  /\ pc = "judge" /\ may_fire
  /\ \E fp \in Captured : skip(fp)
  /\ pc' = "goal"
  /\ judge' = [judge EXCEPT !.now = "skipped"]
  /\ UNCHANGED <<config, inner, gates, work, sent>>

\* Mutant: an attempt without a verdict spends the one shot.
JudgeFails_spends ==
  /\ pc = "judge" /\ may_fire
  /\ \E fp \in Captured : ~skip(fp)
  /\ gates' = IF one_shot THEN [gates EXCEPT !.critic_attempts = @ + 1,
                                             !.critic_done = TRUE]
              ELSE gates
  /\ pc' = "goal"
  /\ judge' = [judge EXCEPT !.now = "failed",
                            !.asked = IF one_shot THEN @ + 1 ELSE @]
  /\ UNCHANGED <<config, inner, work, sent>>

\* Mutant: a failed attempt is not counted.
JudgeFails_uncounted ==
  /\ pc = "judge" /\ may_fire
  /\ \E fp \in Captured : ~skip(fp)
  /\ pc' = "goal"
  /\ judge' = [judge EXCEPT !.now = "failed",
                            !.asked = IF one_shot THEN @ + 1 ELSE @]
  /\ UNCHANGED <<config, inner, gates, work, sent>>

\* The call fails or times out: no verdict, and the run is not blocked.
JudgeFails ==
  /\ pc = "judge" /\ may_fire
  /\ \E fp \in Captured : ~skip(fp)
  /\ gates' = IF one_shot THEN [gates EXCEPT !.critic_attempts = @ + 1]
              ELSE gates
  /\ pc' = "goal"
  /\ judge' = [judge EXCEPT !.now = "failed",
                            !.asked = IF one_shot THEN @ + 1 ELSE @]
  /\ UNCHANGED <<config, inner, work, sent>>

\* Mutant: a verdict does not spend the one shot.
record_verdict_unspent(fp, messages, findings) ==
  IF one_shot THEN [gates EXCEPT !.critic_attempts = @ + 1]
  ELSE [gates EXCEPT
          !.last_reviewed_fingerprint =
             IF run_delta_to_review(fp) THEN fp ELSE @,
          !.last_review_findings = findings,
          !.code_review_reacts = IF messages THEN @ + 1 ELSE @]

\* Mutant: the fingerprint is remembered for clean reviews only.
record_verdict_clean_only(fp, messages, findings) ==
  IF one_shot THEN [gates EXCEPT !.critic_attempts = @ + 1,
                                 !.critic_done = TRUE]
  ELSE [gates EXCEPT
          !.last_reviewed_fingerprint =
             IF run_delta_to_review(fp) /\ ~messages THEN fp ELSE @,
          !.last_review_findings = findings,
          !.code_review_reacts = IF messages THEN @ + 1 ELSE @]

\* A verdict on the diff fp: the task is complete or not, findings or none.
record_verdict(fp, messages, findings) ==
  IF one_shot THEN [gates EXCEPT !.critic_attempts = @ + 1,
                                 !.critic_done = TRUE]
  ELSE [gates EXCEPT
          !.last_reviewed_fingerprint =
             IF run_delta_to_review(fp) THEN fp ELSE @,
          !.last_review_findings = findings,
          !.code_review_reacts = IF messages THEN @ + 1 ELSE @]

JudgeRules ==
  /\ pc = "judge" /\ may_fire
  /\ \E fp \in Captured, complete, findings \in BOOLEAN :
       LET messages == ~complete \/ findings
           reviewed == run_delta_to_review(fp)
       IN  /\ ~skip(fp)
           /\ gates' = record_verdict(fp, messages, findings)
           /\ judge' = [judge EXCEPT
                 !.asked = IF one_shot THEN @ + 1 ELSE @,
                 !.verdicts = IF one_shot THEN @ + 1 ELSE @,
                 !.now = "ruled",
                 !.reviewed = IF reviewed THEN @ \cup {fp} ELSE @,
                 !.raised = IF reviewed /\ findings THEN fp ELSE NoDiff]
           /\ \/ messages /\ FollowUp /\ UNCHANGED inner
              \/ /\ ~messages /\ pc' = "goal"
                 /\ UNCHANGED <<config, inner, work, sent>>

-----------------------------------------------------------------------------
(* The gates below the judge.                                              *)

PollGoal == pc = "goal" /\ GoalGate("todo")

\* Mutant: the cap is off by one.
TodoGate_inclusive ==
  /\ pc = "todo"
  /\ \E unfinished \in BOOLEAN :
       Gate(/\ gates.todo_nudges <= MAX_TODO_NUDGES
            /\ work.edited \/ (gates.todo_nudges = 0 /\ work.wrote_todos)
            /\ unfinished, "todo_nudges", "issues")

\* A list that was only planned is nudged about once, edits more often.
TodoGate ==
  /\ pc = "todo"
  /\ \E unfinished \in BOOLEAN :
       Gate(/\ gates.todo_nudges < MAX_TODO_NUDGES
            /\ work.edited \/ (gates.todo_nudges = 0 /\ work.wrote_todos)
            /\ unfinished, "todo_nudges", "issues")

OpenIssuesGate ==
  /\ pc = "issues"
  /\ \E open \in BOOLEAN :
       Gate(/\ config.issue_db /\ work.edited
            /\ gates.open_issues_nudges < open_issues_cap
            /\ open, "open_issues_nudges", "track")

TrackGate ==
  /\ pc = "track"
  /\ \E unfinished \in BOOLEAN :
       Gate(should_advise_untracked_work(unfinished), "track_nudges",
            "completeness")

CompletenessGate ==
  /\ pc = "completeness"
  /\ \E unfinished, remaining \in BOOLEAN :
       Gate(/\ gates.completeness_nudges <
                 nudge_cap(config.completeness_gate_mode)
            /\ work.edited /\ ~unfinished /\ remaining,
            "completeness_nudges", "finalized")

Rests == pc \in Ended /\ UNCHANGED vars

Work == EditsFile \/ RunsCheck \/ WritesTodos \/ OtherCall
        \/ BoundaryTracksWork

Poll ==
  \/ Concludes
  \/ NotAwaitingUser \/ AwaitingUserDefers \/ AwaitingUser
  \/ HookSpeaks \/ HookSilent \/ Defers \/ NothingToDefer
  \/ ResumeGate \/ VerifierSpeaks \/ VerifierSilent
  \/ ClaimGate \/ SourceGate
  \/ JudgeIdle \/ JudgeSkips \/ JudgeFails \/ JudgeRules
  \/ PollGoal \/ TodoGate \/ OpenIssuesGate \/ TrackGate \/ CompletenessGate

Next == Work \/ Poll \/ Rests

\* The loop goes on polling, and the model ends its turn at last: the turn
\* budget of AgentLoop sees to that.
Fairness == WF_vars(Poll)

Spec == Init /\ [][Next]_vars /\ Fairness

-----------------------------------------------------------------------------
TypeOK ==
  /\ config \in Configs
  /\ inner \in Inner
  /\ gates \in
       [critic_done : BOOLEAN, critic_attempts : 0..MAX_CRITIC_JUDGE_ATTEMPTS,
        code_review_reacts : 0..MAX_REVIEW_REACT,
        last_reviewed_fingerprint : Trees \cup {NoDiff},
        last_review_findings : BOOLEAN,
        goal_reacts : 0..MAX_GOAL_REACT, todo_nudges : 0..MAX_TODO_NUDGES,
        resume_nudges : 0..MAX_RESUME_NUDGE,
        completeness_nudges : 0..MAX_BLOCKING_NUDGES,
        claim_nudges : 0..MAX_BLOCKING_NUDGES,
        source_nudges : 0..MAX_BLOCKING_NUDGES,
        open_issues_nudges : 0..MAX_OPEN_ISSUES_NUDGES,
        track_nudges : 0..MAX_TRACK_NUDGES]
  /\ work \in [calls : BOOLEAN, edited : BOOLEAN, wrote_todos : BOOLEAN,
               failed_tail : BOOLEAN, tree : Trees, steps : 0..WorkBound]
  /\ pc \in {"working", "user", "hook", "defer", "resume", "verifier",
             "claim", "source", "judge", "goal", "todo", "issues", "track",
             "completeness"} \cup Ended
  /\ sent \in [gate : Nat, hook : 0..MaxHooks,
               legacy : {"none", "red", "unrun"}]
  /\ judge \in [asked : Nat, verdicts : Nat,
                now : {"idle", "failed", "skipped", "ruled"},
                reviewed : SUBSET Trees, raised : Trees \cup {NoDiff}]

\* The gates cannot hold a run for ever, though each one goes on seeing what
\* it saw before: together they send the model back at most Budget times,
\* whatever the judges answer, whichever gate speaks first and however the
\* boundary nudge and the two places that poll the goal share a budget.
FollowUpBudget == sent.gate <= Budget

\* Outside blocking mode a run costs one verdict, and a judge that fails is
\* asked again at later finalizations, but not for ever.
OneVerdict ==
  one_shot => /\ judge.verdicts <= 1
              /\ judge.asked <= MAX_CRITIC_JUDGE_ATTEMPTS

\* A run that did work finishes unjudged only if the judge failed just now or
\* its budget is spent: a failed call, an unchanged diff or a review of some
\* earlier diff never stands in for the review of the diff that is left.
JudgeNotLost ==
  pc = "finalized" /\ config.critic /\ work.calls =>
    \/ judge.now \in {"failed", "ruled"}
    \/ /\ one_shot
       /\ judge.verdicts = 1 \/ judge.asked = MAX_CRITIC_JUDGE_ATTEMPTS
    \/ ~one_shot /\ gates.code_review_reacts = MAX_REVIEW_REACT
    \/ ~one_shot /\ judge.now = "skipped" /\ work.tree \in judge.reviewed

\* A finding that the model has answered without touching the tree is not
\* raised again: two verdicts in a row never find fault with the same diff,
\* whatever failed calls lie between them.
RebuttalStands ==
  [][JudgeRules /\ judge'.raised # NoDiff
       => judge'.raised # judge.raised]_vars

\* The full-suite escalation carries a fast-only green at finalization
\* (verifier.rs, module documentation): a run that passes every gate with
\* status FastGreenOnly has had every escalation its mode allows.
FastGreenIsCarried ==
  /\ pc = "finalized" /\ config.verifier
  /\ status(inner, config.project_gate, config.verification_tiers_mode)
       = "FastGreenOnly"
  => inner.escalations = escalation_cap(config.verification_tiers_mode)

\* What the verifier said to a run that passes every gate with code it
\* edited.  If no check ever ran, the run was told that.  If the last check is
\* red, it was told of a red check or, earlier, that none had run: the two
\* share one nudge, so a run that is told to verify and then goes red gets no
\* second word (verifier.rs:55-57), but no escalation, other gate or return to
\* work takes the nudge's place.  A green of fast checks alone has had every
\* escalation.
UnverifiedWorkIsChallenged ==
  /\ pc = "finalized" /\ config.verifier /\ inner.edited_code =>
       /\ ~inner.ran_verification => sent.legacy = "unrun"
       /\ inner.verification_failed => sent.legacy \in {"red", "unrun"}
  /\ FastGreenIsCarried

\* Every run hands control back in the end: no order of gates, judges that
\* never agree and hooks that speak a bounded number of times keeps it.
HandsBack == <>(pc \in Ended)
=============================================================================
