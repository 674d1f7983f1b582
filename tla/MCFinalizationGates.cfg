\* Small budgets, all of them at least two where the second time matters.
SPECIFICATION Spec
CONSTANTS
  Configs <- AllConfigs
  Trees = {base, d1}
  Baseline = base
  NoDiff = NoDiff
  MAX_TIER_ESCALATIONS = 2
  EditBound = 1
  MAX_RESUME_NUDGE = 1
  MAX_CRITIC_JUDGE_ATTEMPTS = 2
  MAX_REVIEW_REACT = 2
  MAX_GOAL_REACT = 2
  MAX_TODO_NUDGES = 2
  MAX_OPEN_ISSUES_NUDGES = 2
  MAX_TRACK_NUDGES = 1
  MAX_BLOCKING_NUDGES = 2
  MaxHooks = 1
  WorkBound = 1
INVARIANTS
  TypeOK
  FollowUpBudget
  OneVerdict
  JudgeNotLost
  UnverifiedWorkIsChallenged
PROPERTIES
  RebuttalStands
  HandsBack
